---- MODULE Spec2Model ----
(***************************************************************************)
(* State-machine model of the mail collection core of emailtemp:           *)
(* the IMAP, POP3, OAuth2-IMAP and Exchange collectors, the Graph client's  *)
(* request and pagination loops, the OAuth token handling and the facade's  *)
(* persistence loop.                                                        *)
(*                                                                          *)
(* Messages of a mailbox are the numbers 1..mboxSize.  Network and file     *)
(* operations are points where the environment chooses the outcome          *)
(* (success, failure status, exception).                                    *)
(***************************************************************************)
EXTENDS Integers, Sequences, FiniteSets, TLC

\* ------------------------------------------------------------------ bounds
MaxMail == 3          \* largest mailbox
MaxResults == 3       \* largest max_results / limit a caller passes
MaxPage == 2          \* largest server page size (Graph)
MaxRequests == 4      \* cap on page requests of one get_all_messages walk
MaxSends == 4         \* cap on HTTP requests of one _make_request call
MaxRetryAfter == 2    \* largest Retry-After value the server sends
MaxTime == 3          \* last instant of the wall clock
MaxExpiresIn == 2     \* longest token lifetime (expires_in)
MaxFlows == 3         \* cap on device-code flows in one behaviour
MaxSave == 3          \* most messages handed to _save_emails
MaxDate == 2          \* last day a message can be dated
MaxAtt == 3           \* most attachments of one message
MaxCallers == 2       \* concurrent invocations on one collector instance

\* program constants
GraphTopCap == 999         \* "$top": min(limit, 999)
DefaultSearchLimit == 50   \* limit=limit or 50
DefaultRetryAfter == 60    \* response.headers.get('Retry-After', 60)

\* --------------------------------------------------------------- constants
\* value of a local variable that was never assigned (reading it raises
\* UnboundLocalError in Python)
Unbound == 0 - 1

Kinds == {"imap", "pop3", "oauth2_imap", "exchange"}
ImapKinds == {"imap", "oauth2_imap"}
\* astream_emails of the IMAP, POP3 and OAuth2-IMAP collectors awaits
\* acollect_emails, which runs collect_emails
CollectOps == {"collect", "stream"}

VARIABLES
    \* --- environment of one collector instance
    kind,            \* which collector class the instance is
    mboxSize,        \* number of messages in the mailbox
    linkForm,        \* form of @odata.nextLink the server emits
    pageCap,         \* server-side page size
    credsGiven,      \* the constructor was given its credentials
    noHeader,        \* messages of the mailbox without a Message-ID header
    \* --- the running call
    op,              \* "idle", "collect", "test"
    pc,              \* position inside the running call
    maxRes,          \* filter_criteria.max_results (0: None / no filter)
    useSearch,       \* filter_criteria.subject_contains is set (Exchange)
    constrained,     \* filter_criteria has a constraint field set
    searchHits,      \* the mailbox's messages that satisfy filter_criteria,
                     \* in the order a server search answers them
    yielded,         \* astream_emails: <<message, fetches issued>> per yield
    conn,            \* "none", "open", "closed"
    rtDone,          \* the authenticated round trip completed
    cmds,            \* protocol commands issued by the call
    idList,          \* message_id_list / message_ids after truncation
    idx,             \* loop index into idList / email_list
    messages,        \* local list `messages`
    errors,          \* local list `errors`
    totalCount,      \* local total_count (Unbound until assigned)
    filteredCount,   \* local filtered_count (Unbound until assigned)
    ret,             \* what the call did: "none", "result", "raised", "true", "false"
    retTotal,        \* total_count of the returned CollectionResult
    retFiltered,     \* filtered_count of the returned CollectionResult
    attempts,        \* log of per-message outcomes chosen by the environment
    \* --- ExchangeClient.get_all_messages
    skipToken,       \* skip_token (0: None)
    totalRetrieved,  \* total_retrieved
    page,            \* messages of the page being iterated
    pagePos,         \* position in page
    nextLink,        \* offset the last response's next link points to (0: no link)
    emailList,       \* messages yielded so far (email_list)
    requests,        \* log of page requests: <<skip, top, total_retrieved>>
    \* --- ExchangeClient._make_request
    rqPc,            \* "idle", "headers", "send", "sleep", "done"
    rqUrl,           \* the url argument
    rqDepth,         \* nesting depth of _make_request invocations
    rqToken,         \* token fetched by the running invocation (0: none yet)
    rqHeader,        \* Authorization token in kwargs['headers'] (0: none)
    rqSent,          \* log of HTTP requests sent: <<url, token, depth>>
    rqTokenCalls,    \* log of get_access_token calls: <<token, depth>>
    rqRetryAfter,    \* retry_after of the 429 being handled
    rqSlept,         \* log of time.sleep durations
    rqRet,           \* "none", "response", "raised"
    \* --- OAuth token state (OAuthHandler, OAuth2IMAPCollector)
    tokKind,         \* "exchange" (OAuthHandler) or "oauth2_imap"
    now,             \* wall clock
    cacheFile,       \* token_cache_file / cache_file: Absent or serialized cache
    tokenFile,       \* token_file: Absent, Corrupt or [access_token, expires_at]
    mem,             \* OAuthHandler.app.token_cache: [account, at]
    deviceFlows,     \* number of device-code flows initiated so far
    lastOp,          \* last token operation: "none", "init", "get", "revoke", "test", "acquire"
    lastRet,         \* its result: a token, NoTok for None, Raised, TrueRet, FalseRet
    lastEvents,      \* what it did, in order
    lastEnvOk,       \* servers, user and file system cooperated during it
    pre,             \* [mem, cacheFile, tokenFile, now] when it started
    \* --- MailCollector._save_emails
    svPc,            \* "idle", "loop", "done"
    svMessages,      \* result.messages
    svGiven,         \* result.messages as handed to _save_emails
    svPos,           \* position of the for loop
    svSavedFiles,    \* result.saved_files
    svErrors,        \* result.errors
    svGivenErrors,   \* result.errors as handed to _save_emails
    svOutcomes,      \* log of per-message outcomes chosen by the environment
    svSaveAtt,       \* options.save_attachments
    svFormat,        \* options.output_format
    svDisk,          \* email files that exist under options.output_dir
    \* --- the filter functions (_build_search_criteria, _matches_filter)
    fPc,             \* "idle", "built", "matched", "queried"
    fFilter,         \* the filter_criteria argument
    fMsg,            \* the message argument of _matches_filter
    fCriteria,       \* what _build_search_criteria returned
    fMatch,          \* what _matches_filter did: "true", "false", "TypeError"
    fQuery,          \* $search and $filter of the request Exchange
                     \* collect_emails sends for the filter
    \* --- MicrosoftExchangeCollector._process_email on one message
    aPc,             \* "idle", "email", "mkdir", "loop", "done"
    aOp,             \* "collect" or "stream"
    aSubject,        \* filter_criteria.subject_contains is set
    aInclude,        \* kwargs include_attachments
    aAtts,           \* number of attachments the message has in the mailbox
    aList,           \* email.get("attachments", [])
    aPos,            \* position of the for loop of _process_attachments
    aLog,            \* download_attachment calls: <<attachment, outcome>>
    aKept,           \* processed_attachments
    aRet,            \* "none", "message" (returned or yielded), "raised"
    \* --- concurrent invocations on one IMAP / OAuth2-IMAP / POP3 instance
    cKind,           \* the collector class of the instance
    cPc,             \* per invocation: "idle", "connect", "send", "wait", "done"
    cOp,             \* per invocation: "collect", "folders", "test", "none"
    cConn,           \* per invocation: its local `connection` (0: none)
    cCmdIdx,         \* per invocation: position in its command sequence
    cOpened,         \* number of connection objects created so far
    cUsers,          \* per connection: the invocations that sent it a command
    cInFlight        \* per connection: commands sent and not yet answered

collVars == <<kind, mboxSize, linkForm, pageCap, credsGiven, noHeader,
              op, pc, maxRes, useSearch, constrained, searchHits, yielded,
              conn, rtDone, cmds, idList, idx, messages, errors, totalCount,
              filteredCount, ret, retTotal, retFiltered, attempts,
              skipToken, totalRetrieved, page, pagePos, nextLink, emailList,
              requests>>

envVars == <<kind, mboxSize, linkForm, pageCap, credsGiven, noHeader>>
filterVars == <<maxRes, useSearch, constrained, searchHits>>
genVars == <<skipToken, totalRetrieved, page, pagePos, nextLink, emailList,
             requests>>

reqVars == <<rqPc, rqUrl, rqDepth, rqToken, rqHeader, rqSent, rqTokenCalls,
             rqRetryAfter, rqSlept, rqRet>>

tokVars == <<tokKind, now, cacheFile, tokenFile, mem, deviceFlows, lastOp,
             lastRet, lastEvents, lastEnvOk, pre>>

saveVars == <<svPc, svMessages, svGiven, svPos, svSavedFiles, svErrors,
              svGivenErrors, svOutcomes, svSaveAtt, svFormat, svDisk>>

fltVars == <<fPc, fFilter, fMsg, fCriteria, fMatch, fQuery>>

attVars == <<aPc, aOp, aSubject, aInclude, aAtts, aList, aPos, aLog, aKept,
             aRet>>

concVars == <<cKind, cPc, cOp, cConn, cCmdIdx, cOpened, cUsers, cInFlight>>

vars == <<collVars, reqVars, tokVars, saveVars, fltVars, attVars, concVars>>

notColl == <<reqVars, tokVars, saveVars, fltVars, attVars, concVars>>
notReq == <<collVars, tokVars, saveVars, fltVars, attVars, concVars>>
notTok == <<collVars, reqVars, saveVars, fltVars, attVars, concVars>>
notSave == <<collVars, reqVars, tokVars, fltVars, attVars, concVars>>
notFlt == <<collVars, reqVars, tokVars, saveVars, attVars, concVars>>
notAtt == <<collVars, reqVars, tokVars, saveVars, fltVars, concVars>>
notConc == <<collVars, reqVars, tokVars, saveVars, fltVars, attVars>>

\* ----------------------------------------------------------------- helpers
Min(a, b) == IF a < b THEN a ELSE b

\* seq[:n]  (Python slice, n >= 0)
Prefix(seq, n) == SubSeq(seq, 1, Min(n, Len(seq)))

Range(seq) == {seq[i] : i \in 1..Len(seq)}

\* all sequences without repetition over 1..n: what a SEARCH can answer
InjSeqs(n) ==
    UNION {{s \in [1..k -> 1..n] : \A i, j \in 1..k : i # j => s[i] # s[j]}
           : k \in 0..n}

\* (mutation of Truncate: max_results is ignored)
Truncate_NoLimit(ids, m) == ids

\* (mutation of Truncate: the last max_results ids are kept)
Truncate_Tail(ids, m) ==
    IF m # 0 /\ m < Len(ids) THEN SubSeq(ids, Len(ids) - m + 1, Len(ids))
                             ELSE ids

\* message_id_list[:max_results] under `if filter_criteria and
\* filter_criteria.max_results`
Truncate(ids, m) == IF m # 0 THEN Prefix(ids, m) ELSE ids

ConnError == <<"conn", 0>>
SearchError == <<"search", 0>>
FetchError(id) == <<"fetch", id>>

\* the ids 1..n in mailbox order
Ids(n) == [i \in 1..n |-> i]

\* ascending sequences over 1..n: the subsets of the mailbox in its order
AscSeqs(n) == {s \in InjSeqs(n) : \A i, j \in 1..Len(s) : i < j => s[i] < s[j]}

\* __init__ of a collector: "instance", or the exception it raises.  Only
\* MicrosoftExchangeCollector (and the OAuthHandler it builds) tests what it
\* was given: `if not all([self.tenant_id, self.client_id]): raise ValueError`.
\* The other constructors store their arguments, whose defaults are "".
Construct(k, creds) ==
    IF k = "exchange" /\ ~creds THEN "ValueError" ELSE "instance"

\* message_id of the EmailMessage built from message m of the mailbox:
\* message.get('Message-ID', '') in _message_to_email of the IMAP, POP3 and
\* OAuth2-IMAP collectors (0 stands for ''), email.get("id", "") of the Graph
\* item in _process_email
MessageIdOf(m) ==
    IF kind # "exchange" /\ m \in noHeader THEN 0 ELSE m

CallIdle ==
    /\ op = "idle" /\ pc = "idle" /\ maxRes = 0 /\ useSearch = FALSE
    /\ constrained = FALSE /\ searchHits = <<>> /\ yielded = <<>>
    /\ conn = "none" /\ rtDone = FALSE /\ cmds = {}
    /\ idList = <<>> /\ idx = 1 /\ messages = <<>> /\ errors = <<>>
    /\ totalCount = Unbound /\ filteredCount = Unbound
    /\ ret = "none" /\ retTotal = Unbound /\ retFiltered = Unbound
    /\ attempts = <<>>
    /\ skipToken = 0 /\ totalRetrieved = 0 /\ page = <<>> /\ pagePos = 1
    /\ nextLink = 0 /\ emailList = <<>> /\ requests = <<>>

CollInit ==
    /\ kind \in Kinds
    /\ mboxSize \in 0..MaxMail
    /\ linkForm \in (IF kind = "exchange" THEN {"skiptoken", "skip"}
                                          ELSE {"skiptoken"})
    /\ pageCap \in (IF kind = "exchange" THEN 1..MaxPage ELSE {1})
    /\ credsGiven \in {c \in BOOLEAN : Construct(kind, c) = "instance"}
    /\ noHeader \in (IF kind = "exchange" THEN {{}} ELSE SUBSET (1..mboxSize))
    /\ CallIdle

\* ------------------------------------------------------------ call entry
\* A caller invokes collect_emails (directly or through
\* MailCollector.collect_emails, which only delegates) or test_connection.
\* The filter is given by max_results (0: unset), by which constraint
\* fields are set ("none"; "subject": subject_contains; "other": fields
\* other than subject_contains) and by the messages that satisfy it.
\* Exchange collect_emails takes the search path when subject_contains is
\* set; Exchange astream_emails always walks get_all_messages, whose
\* filter_query (_build_filter_query) has no clause for subject_contains.
Call ==
    /\ op = "idle"
    /\ \E o \in {"collect", "test", "stream"}, m \in 0..MaxResults,
          f \in {"none", "subject", "other"} :
          /\ op' = o
          /\ maxRes' = (IF o \in CollectOps THEN m ELSE 0)
          /\ constrained' = (o \in CollectOps /\ f # "none")
          /\ useSearch' = (o \in CollectOps /\ kind = "exchange" /\ f = "subject")
          /\ searchHits' \in
                (IF o \in CollectOps /\ f # "none"
                      /\ (kind # "exchange" \/ f = "subject")
                   THEN (IF kind = "pop3" THEN AscSeqs(mboxSize)
                                          ELSE InjSeqs(mboxSize))
                   ELSE {Ids(mboxSize)})
          /\ pc' = (IF kind = "exchange" /\ o = "collect"
                      THEN (IF f = "subject" THEN "exsearch" ELSE "gam_top")
                      ELSE IF kind = "exchange" /\ o = "stream"
                        THEN "gam_top" ELSE "connect")
    /\ UNCHANGED <<notColl, envVars, yielded, conn, rtDone, cmds, idList, idx, messages, errors,
                   totalCount, filteredCount, ret, retTotal, retFiltered,
                   attempts, genVars>>

\* The statement after the try block of the IMAP/POP3 collect_emails:
\*   return CollectionResult(messages, total_count=total_count, ...)
\* It reads the locals total_count and filtered_count; when the try block
\* failed before assigning them the read raises UnboundLocalError.
ReturnResult ==
    /\ pc = "return"
    /\ pc' = "done"
    /\ IF totalCount = Unbound \/ filteredCount = Unbound
         THEN /\ ret' = "raised"
              /\ UNCHANGED <<retTotal, retFiltered>>
         ELSE /\ ret' = "result"
              /\ retTotal' = totalCount
              /\ retFiltered' = filteredCount

\* whether _connect can succeed: a server accepts a login only with the
\* username and password (token) the constructor was given
ConnectOutcomes == IF credsGiven THEN BOOLEAN ELSE {FALSE}

\* ------------------------------------------------ IMAP / OAuth2-IMAP collect
\* connection = self._connect(): open the socket and log in (OAuth2: acquire
\* a token and authenticate); any failure raises into the outer except.
ImapConnect ==
    /\ op \in CollectOps /\ kind \in ImapKinds /\ pc = "connect"
    /\ \E ok \in ConnectOutcomes :
          IF ok THEN /\ conn' = "open"
                     /\ cmds' = cmds \cup {"login"}
                     /\ pc' = "select"
                     /\ UNCHANGED errors
                ELSE /\ errors' = Append(errors, ConnError)
                     /\ pc' = "return"
                     /\ UNCHANGED <<conn, cmds>>
    /\ UNCHANGED <<notColl, envVars, filterVars, op, yielded, rtDone, idList, idx,
                   messages, totalCount, filteredCount, ret, retTotal,
                   retFiltered, attempts, genVars>>

\* connection.select(folder)
ImapSelect ==
    /\ op \in CollectOps /\ kind \in ImapKinds /\ pc = "select"
    /\ cmds' = cmds \cup {"select"}
    /\ \E ok \in BOOLEAN :
          IF ok THEN pc' = "search" /\ UNCHANGED errors
                ELSE /\ errors' = Append(errors, ConnError)
                     /\ pc' = "return"
    /\ UNCHANGED <<notColl, envVars, filterVars, op, yielded, conn, rtDone, idList, idx,
                   messages, totalCount, filteredCount, ret, retTotal,
                   retFiltered, attempts, genVars>>

\* status, message_ids = connection.search(None, search_criteria), then the
\* early return on status != 'OK', or the split / count / truncation.
ImapSearch ==
    /\ op \in CollectOps /\ kind \in ImapKinds /\ pc = "search"
    /\ cmds' = cmds \cup {"search"}
    /\ \/ /\ totalCount' = Len(searchHits)       \* status = 'OK'
          /\ idList' = Truncate(searchHits, maxRes)
          /\ filteredCount' = Len(Truncate(searchHits, maxRes))
          /\ idx' = 1
          /\ pc' = "fetch"
          /\ UNCHANGED <<errors, ret, retTotal, retFiltered>>
       \/ /\ errors' = Append(errors, SearchError)  \* status # 'OK'
          /\ ret' = "result" /\ retTotal' = 0 /\ retFiltered' = 0
          /\ pc' = "done"
          /\ UNCHANGED <<totalCount, idList, filteredCount, idx>>
       \/ /\ errors' = Append(errors, ConnError)    \* search raised
          /\ pc' = "return"
          /\ UNCHANGED <<totalCount, idList, filteredCount, idx, ret,
                         retTotal, retFiltered>>
    /\ UNCHANGED <<notColl, envVars, filterVars, op, yielded, conn, rtDone, messages,
                   attempts, genVars>>

\* (mutation of ImapFetchBody: an exception ends the loop)
ImapFetchBody_AbortOnRaise(id, outcome) ==
    /\ cmds' = cmds \cup {"fetch"}
    /\ attempts' = Append(attempts, <<id, outcome>>)
    /\ CASE outcome = "ok" ->
              /\ messages' = Append(messages, id) /\ UNCHANGED errors
              /\ idx' = idx + 1
         [] outcome = "notok" ->
              UNCHANGED <<messages, errors>> /\ idx' = idx + 1
         [] outcome = "raise" ->
              /\ errors' = Append(errors, FetchError(id)) /\ UNCHANGED messages
              /\ idx' = Len(idList) + 1

\* body of `for msg_id in message_id_list` for one msg_id
ImapFetchBody(id, outcome) ==
    /\ cmds' = cmds \cup {"fetch"}
    /\ attempts' = Append(attempts, <<id, outcome>>)
    /\ idx' = idx + 1
    /\ CASE outcome = "ok" ->                 \* fetched and converted
              messages' = Append(messages, id) /\ UNCHANGED errors
         [] outcome = "notok" ->              \* status # 'OK' or no data
              UNCHANGED <<messages, errors>>
         [] outcome = "raise" ->              \* fetch or conversion raised
              errors' = Append(errors, FetchError(id)) /\ UNCHANGED messages

ImapFetch ==
    /\ op \in CollectOps /\ kind \in ImapKinds /\ pc = "fetch"
    /\ idx <= Len(idList)
    /\ \E outcome \in {"ok", "notok", "raise"} :
          ImapFetchBody(idList[idx], outcome)
    /\ UNCHANGED <<notColl, envVars, filterVars, op, pc, yielded, conn, rtDone, idList,
                   totalCount, filteredCount, ret, retTotal, retFiltered,
                   genVars>>

\* connection.close(); connection.logout() after the loop
ImapClose ==
    /\ op \in CollectOps /\ kind \in ImapKinds /\ pc = "fetch"
    /\ idx > Len(idList)
    /\ \E ok \in BOOLEAN :
          IF ok THEN /\ conn' = "closed"
                     /\ cmds' = cmds \cup {"close", "logout"}
                     /\ UNCHANGED errors
                ELSE /\ errors' = Append(errors, ConnError)
                     /\ cmds' = cmds \cup {"close"}
                     /\ UNCHANGED conn
    /\ pc' = "return"
    /\ UNCHANGED <<notColl, envVars, filterVars, op, yielded, rtDone, idList, idx,
                   messages, totalCount, filteredCount, ret, retTotal,
                   retFiltered, attempts, genVars>>

ImapReturn ==
    /\ op \in CollectOps /\ kind \in ImapKinds
    /\ ReturnResult
    /\ UNCHANGED <<notColl, envVars, filterVars, op, yielded, conn, rtDone, cmds, idList,
                   idx, messages, errors, totalCount, filteredCount, attempts,
                   genVars>>

\* ------------------------------------------------------------ POP3 collect
\* connection = self._connect(): open, USER, PASS
Pop3Connect ==
    /\ op \in CollectOps /\ kind = "pop3" /\ pc = "connect"
    /\ \E ok \in ConnectOutcomes :
          IF ok THEN /\ conn' = "open"
                     /\ cmds' = cmds \cup {"login"}
                     /\ pc' = "stat"
                     /\ UNCHANGED errors
                ELSE /\ errors' = Append(errors, ConnError)
                     /\ pc' = "return"
                     /\ UNCHANGED <<conn, cmds>>
    /\ UNCHANGED <<notColl, envVars, filterVars, op, yielded, rtDone, idList, idx,
                   messages, totalCount, filteredCount, ret, retTotal,
                   retFiltered, attempts, genVars>>

\* message_count, _ = connection.stat(); the id range and its truncation
Pop3Stat ==
    /\ op \in CollectOps /\ kind = "pop3" /\ pc = "stat"
    /\ cmds' = cmds \cup {"stat"}
    /\ \/ /\ totalCount' = mboxSize
          /\ idList' = Truncate(Ids(mboxSize), maxRes)
          /\ filteredCount' = Len(Truncate(Ids(mboxSize), maxRes))
          /\ idx' = 1
          /\ pc' = "fetch"
          /\ UNCHANGED errors
       \/ /\ errors' = Append(errors, ConnError)     \* stat raised
          /\ pc' = "return"
          /\ UNCHANGED <<totalCount, idList, filteredCount, idx>>
    /\ UNCHANGED <<notColl, envVars, filterVars, op, yielded, conn, rtDone, messages,
                   ret, retTotal, retFiltered, attempts, genVars>>

\* body of `for msg_id in message_ids` for one msg_id: RETR, conversion and
\* the client-side filter
Pop3RetrBody(id, outcome) ==
    /\ cmds' = cmds \cup {"retr"}
    /\ attempts' = Append(attempts, <<id, outcome>>)
    /\ idx' = idx + 1
    /\ CASE outcome = "ok" ->                 \* retrieved, matches the filter
              messages' = Append(messages, id) /\ UNCHANGED errors
         [] outcome = "nomatch" ->            \* retrieved, filtered out
              UNCHANGED <<messages, errors>>
         [] outcome = "raise" ->              \* retr or conversion raised
              errors' = Append(errors, FetchError(id)) /\ UNCHANGED messages

\* self._matches_filter(email_msg, filter_criteria) for a retrieved message
MatchesFilter(id) == id \in Range(searchHits)

Pop3Retr ==
    /\ op \in CollectOps /\ kind = "pop3" /\ pc = "fetch"
    /\ idx <= Len(idList)
    /\ \E outcome \in {IF MatchesFilter(idList[idx]) THEN "ok" ELSE "nomatch",
                        "raise"} :
          Pop3RetrBody(idList[idx], outcome)
    /\ UNCHANGED <<notColl, envVars, filterVars, op, pc, yielded, conn, rtDone, idList,
                   totalCount, filteredCount, ret, retTotal, retFiltered,
                   genVars>>

\* connection.quit() after the loop
Pop3Quit ==
    /\ op \in CollectOps /\ kind = "pop3" /\ pc = "fetch"
    /\ idx > Len(idList)
    /\ cmds' = cmds \cup {"quit"}
    /\ \E ok \in BOOLEAN :
          IF ok THEN conn' = "closed" /\ UNCHANGED errors
                ELSE errors' = Append(errors, ConnError) /\ UNCHANGED conn
    /\ pc' = "return"
    /\ UNCHANGED <<notColl, envVars, filterVars, op, yielded, rtDone, idList, idx,
                   messages, totalCount, filteredCount, ret, retTotal,
                   retFiltered, attempts, genVars>>

Pop3Return ==
    /\ op \in CollectOps /\ kind = "pop3"
    /\ ReturnResult
    /\ UNCHANGED <<notColl, envVars, filterVars, op, yielded, conn, rtDone, cmds, idList,
                   idx, messages, errors, totalCount, filteredCount, attempts,
                   genVars>>

\* ---------------------------------------- astream_emails (IMAP, POP3)
\*   result = await self.acollect_emails(filter_criteria, ...)
\*   for message in result.messages: yield message
\* One turn of the for loop, after collect_emails has returned.
StreamYield ==
    /\ op = "stream" /\ kind # "exchange" /\ pc = "done" /\ ret = "result"
    /\ Len(yielded) < Len(messages)
    /\ yielded' = Append(yielded, <<messages[Len(yielded) + 1], Len(attempts)>>)
    /\ UNCHANGED <<notColl, envVars, filterVars, op, pc, conn, rtDone, cmds,
                   idList, idx, messages, errors, totalCount, filteredCount,
                   ret, retTotal, retFiltered, attempts, genVars>>

\* ------------------------------------------------------- test_connection
\* (mutation of SessionTestBody: a failing logout still answers True)
SessionTestBody_TrueOnByeError(outcome, byeCmd) ==
    CASE outcome = "ok" ->
           /\ cmds' = cmds \cup {"login", byeCmd}
           /\ conn' = "closed" /\ rtDone' = TRUE /\ ret' = "true"
      [] outcome = "bye_raises" ->
           /\ cmds' = cmds \cup {"login", byeCmd}
           /\ conn' = "open" /\ rtDone' = FALSE /\ ret' = "true"
      [] outcome = "connect_raises" ->
           /\ UNCHANGED <<cmds, conn>> /\ rtDone' = FALSE /\ ret' = "false"

\* try: connection = self._connect(); connection.logout(); return True
\* except Exception: return False
SessionTestBody(outcome, byeCmd) ==
    CASE outcome = "ok" ->
           /\ cmds' = cmds \cup {"login", byeCmd}
           /\ conn' = "closed" /\ rtDone' = TRUE /\ ret' = "true"
      [] outcome = "bye_raises" ->
           /\ cmds' = cmds \cup {"login", byeCmd}
           /\ conn' = "open" /\ rtDone' = FALSE /\ ret' = "false"
      [] outcome = "connect_raises" ->
           /\ UNCHANGED <<cmds, conn>> /\ rtDone' = FALSE /\ ret' = "false"

SessionOutcomes ==
    IF credsGiven THEN {"ok", "bye_raises", "connect_raises"}
                  ELSE {"connect_raises"}

ImapTestConnection ==
    /\ op = "test" /\ kind = "imap" /\ pc = "connect"
    /\ \E outcome \in SessionOutcomes :
          SessionTestBody(outcome, "logout")
    /\ pc' = "done"
    /\ UNCHANGED <<notColl, envVars, filterVars, op, yielded, idList, idx, messages,
                   errors, totalCount, filteredCount, retTotal, retFiltered,
                   attempts, genVars>>

OAuth2ImapTestConnection ==
    /\ op = "test" /\ kind = "oauth2_imap" /\ pc = "connect"
    /\ \E outcome \in SessionOutcomes :
          SessionTestBody(outcome, "logout")
    /\ pc' = "done"
    /\ UNCHANGED <<notColl, envVars, filterVars, op, yielded, idList, idx, messages,
                   errors, totalCount, filteredCount, retTotal, retFiltered,
                   attempts, genVars>>

Pop3TestConnection ==
    /\ op = "test" /\ kind = "pop3" /\ pc = "connect"
    /\ \E outcome \in SessionOutcomes :
          SessionTestBody(outcome, "quit")
    /\ pc' = "done"
    /\ UNCHANGED <<notColl, envVars, filterVars, op, yielded, idList, idx, messages,
                   errors, totalCount, filteredCount, retTotal, retFiltered,
                   attempts, genVars>>

\* try: user_info = self.exchange_client.get_user_profile()
\*      return user_info is not None
\* except Exception: return False
\* get_user_profile raises when no token is available or the status is
\* not 200.
ExTestBody(ok) ==
    IF ok THEN /\ cmds' = cmds \cup {"http_profile"}
               /\ rtDone' = TRUE /\ ret' = "true"
          ELSE /\ cmds' \in {cmds, cmds \cup {"http_profile"}}
               /\ rtDone' = FALSE /\ ret' = "false"

ExTestConnection ==
    /\ op = "test" /\ kind = "exchange" /\ pc = "connect"
    /\ \E ok \in BOOLEAN : ExTestBody(ok)
    /\ pc' = "done"
    /\ UNCHANGED <<notColl, envVars, filterVars, op, yielded, conn, idList, idx, messages,
                   errors, totalCount, filteredCount, retTotal, retFiltered,
                   attempts, genVars>>

\* ------------------------------------------------------- Exchange collect
CollectError == <<"collect", 0>>
ProcessError(id) == <<"process", id>>

\* The Graph server's answer to a messages request with $skiptoken = skip
\* (0: none) and $top = top: the messages after the offset, at most a page.
ServerPage(skip, top) ==
    LET cnt == Min(Min(top, pageCap), mboxSize - skip)
    IN  [i \in 1..(IF cnt > 0 THEN cnt ELSE 0) |-> skip + i]

\* offset of the next page, 0 when the answer carries no @odata.nextLink
ServerNextLink(skip, top) ==
    LET upto == skip + Len(ServerPage(skip, top))
    IN  IF upto < mboxSize /\ Len(ServerPage(skip, top)) > 0 THEN upto ELSE 0

\* limit = kwargs.get('limit', filter_criteria.max_results ...): 0 is None
\* batch_size = min(999, limit - total_retrieved if limit else 999)
BatchSize ==
    Min(GraphTopCap, IF maxRes # 0 THEN maxRes - totalRetrieved ELSE GraphTopCap)

\* `if limit and total_retrieved >= limit`
LimitReached(total) == maxRes # 0 /\ total >= maxRes

\* skip_token = None; if "skiptoken=" in next_link: skip_token = <its value>
ExtractSkipToken(link) == IF linkForm = "skiptoken" THEN link ELSE 0

\* except Exception of collect_emails: the error is recorded and a result
\* with total_count=0 is returned.
ExCollectFails ==
    /\ errors' = Append(errors, CollectError)
    /\ ret' = "result" /\ retTotal' = 0 /\ retFiltered' = Len(messages)
    /\ pc' = "done"

\* search_messages: one request with "$top": min(limit, 999), limit being
\* `limit or 50`; email_list is the "value" of that one response.
SearchAnswer ==
    Prefix(searchHits,
           Min(Min(IF maxRes # 0 THEN maxRes ELSE DefaultSearchLimit,
                   GraphTopCap), pageCap))

\* except Exception of astream_emails: the error is logged and the stream
\* ends
ExStreamFails ==
    /\ pc' = "done"
    /\ attempts' = Append(attempts, <<0, "raise">>)
    /\ UNCHANGED <<errors, ret, retTotal, retFiltered>>

\* result = self.exchange_client.search_messages(query, folder_id, limit or 50)
ExSearchMessages ==
    /\ op = "collect" /\ kind = "exchange" /\ pc = "exsearch"
    /\ \/ /\ cmds' = cmds \cup {"http_search"}
          /\ emailList' = SearchAnswer
          /\ idx' = 1
          /\ pc' = "process"
          /\ UNCHANGED <<errors, ret, retTotal, retFiltered>>
       \/ /\ cmds' \in {cmds, cmds \cup {"http_search"}}
          /\ ExCollectFails
          /\ UNCHANGED <<emailList, idx>>
    /\ UNCHANGED <<notColl, envVars, filterVars, op, yielded, conn, rtDone, idList,
                   messages, totalCount, filteredCount, attempts, skipToken,
                   totalRetrieved, page, pagePos, nextLink, requests>>

\* where the end of the get_all_messages generator leads: collect_emails
\* goes on to its process loop over email_list, astream_emails ends
AfterWalk == IF op = "stream" THEN "done" ELSE "process"

\* get_all_messages, top of `while True`: the limit check that leaves the loop
GamLimitBreak ==
    /\ op \in CollectOps /\ kind = "exchange" /\ pc = "gam_top"
    /\ LimitReached(totalRetrieved)
    /\ pc' = AfterWalk /\ idx' = 1
    /\ UNCHANGED <<notColl, envVars, filterVars, op, yielded, conn, rtDone, cmds, idList,
                   messages, errors, totalCount, filteredCount, ret, retTotal,
                   retFiltered, attempts, genVars>>

\* get_all_messages: result = self.get_messages(limit=batch_size, skip_token)
\* and `if not messages: break`
GamRequest ==
    /\ op \in CollectOps /\ kind = "exchange" /\ pc = "gam_top"
    /\ ~LimitReached(totalRetrieved)
    /\ Len(requests) < MaxRequests
    /\ requests' = Append(requests, <<skipToken, BatchSize, totalRetrieved>>)
    /\ \/ /\ cmds' = cmds \cup {"http_messages"}
          /\ page' = ServerPage(skipToken, Min(BatchSize, GraphTopCap))
          /\ nextLink' = ServerNextLink(skipToken, Min(BatchSize, GraphTopCap))
          /\ pagePos' = 1
          /\ IF ServerPage(skipToken, Min(BatchSize, GraphTopCap)) = <<>>
               THEN pc' = AfterWalk
               ELSE pc' = "gam_yield"
          /\ idx' = 1
          /\ UNCHANGED <<errors, ret, retTotal, retFiltered, attempts>>
       \/ /\ cmds' \in {cmds, cmds \cup {"http_messages"}}
          /\ IF op = "stream" THEN ExStreamFails  \* the request raised
                              ELSE ExCollectFails /\ UNCHANGED attempts
          /\ UNCHANGED <<page, nextLink, pagePos, idx>>
    /\ UNCHANGED <<notColl, envVars, filterVars, op, yielded, conn, rtDone, idList,
                   messages, totalCount, filteredCount, skipToken,
                   totalRetrieved, emailList>>

\* body of `for email in self.exchange_client.get_all_messages(...)` in
\* astream_emails: _process_email, then the yield to the consumer; an
\* exception is logged and the loop continues
ExStreamBody(id, outcome) ==
    /\ attempts' = Append(attempts, <<id, outcome>>)
    /\ CASE outcome = "ok" ->
              yielded' = Append(yielded, <<id, Len(requests)>>)
         [] outcome = "raise" ->
              UNCHANGED yielded

\* get_all_messages: one turn of `for message in messages`: yield, count,
\* and the limit check that leaves the for loop.  The yield hands the
\* message to the caller's loop: list() in collect_emails, the body above
\* in astream_emails.
GamYield ==
    /\ op \in CollectOps /\ kind = "exchange" /\ pc = "gam_yield"
    /\ pagePos <= Len(page)
    /\ emailList' = Append(emailList, page[pagePos])
    /\ IF op = "stream"
         THEN \E outcome \in {"ok", "raise"} : ExStreamBody(page[pagePos], outcome)
         ELSE UNCHANGED <<attempts, yielded>>
    /\ totalRetrieved' = totalRetrieved + 1
    /\ pagePos' = pagePos + 1
    /\ pc' = IF LimitReached(totalRetrieved + 1) \/ pagePos + 1 > Len(page)
               THEN "gam_next" ELSE "gam_yield"
    /\ UNCHANGED <<notColl, envVars, filterVars, op, conn, rtDone, cmds, idList,
                   idx, messages, errors, totalCount, filteredCount, ret,
                   retTotal, retFiltered, skipToken, page, nextLink,
                   requests>>

\* get_all_messages: next_link = result.get("@odata.nextLink"); leave the
\* loop without one, otherwise take the skip token out of it
GamNextLink ==
    /\ op \in CollectOps /\ kind = "exchange" /\ pc = "gam_next"
    /\ IF nextLink = 0
         THEN pc' = AfterWalk /\ UNCHANGED skipToken
         ELSE pc' = "gam_top" /\ skipToken' = ExtractSkipToken(nextLink)
    /\ UNCHANGED <<notColl, envVars, filterVars, op, yielded, conn, rtDone, cmds, idList,
                   idx, messages, errors, totalCount, filteredCount, ret,
                   retTotal, retFiltered, attempts, totalRetrieved, page,
                   pagePos, nextLink, emailList, requests>>

\* body of `for i, email in enumerate(email_list)` for one email
ExProcessBody(id, outcome) ==
    /\ attempts' = Append(attempts, <<id, outcome>>)
    /\ idx' = idx + 1
    /\ CASE outcome = "ok" ->
              messages' = Append(messages, id) /\ UNCHANGED errors
         [] outcome = "raise" ->
              errors' = Append(errors, ProcessError(id)) /\ UNCHANGED messages

ExProcess ==
    /\ op = "collect" /\ kind = "exchange" /\ pc = "process"
    /\ idx <= Len(emailList)
    /\ \E outcome \in {"ok", "raise"} : ExProcessBody(emailList[idx], outcome)
    /\ UNCHANGED <<notColl, envVars, filterVars, op, pc, yielded, conn, rtDone, cmds,
                   idList, totalCount, filteredCount, ret, retTotal,
                   retFiltered, genVars>>

\* return CollectionResult(messages, total_count=len(email_list),
\*                         filtered_count=len(messages), ...)
ExReturn ==
    /\ op = "collect" /\ kind = "exchange" /\ pc = "process"
    /\ idx > Len(emailList)
    /\ ret' = "result"
    /\ retTotal' = Len(emailList)
    /\ retFiltered' = Len(messages)
    /\ pc' = "done"
    /\ UNCHANGED <<notColl, envVars, filterVars, op, yielded, conn, rtDone, cmds, idList,
                   idx, messages, errors, totalCount, filteredCount, attempts,
                   genVars>>

\* ------------------------------------------------------------ token state
\* An access token is [iss |-> time issued, exp |-> time it stops being valid]
NoTok == [iss |-> 0, exp |-> 0]
Raised == [iss |-> 0 - 1, exp |-> 0]          \* the call raised
TrueRet == [iss |-> 0 - 2, exp |-> 1]         \* test_connection: True
FalseRet == [iss |-> 0 - 2, exp |-> 0]        \* test_connection: False
NewToken(t, expIn) == [iss |-> t, exp |-> t + expIn]

EmptyCache == [account |-> FALSE, at |-> NoTok]
\* the MSAL cache file: absent, or the JSON blob written by serialize()
Absent == [state |-> "absent", cache |-> EmptyCache]
Serialize(c) == [state |-> "json", cache |-> c]
Deserialize(f) == f.cache
\* the simple access-token file: absent, unreadable, or the saved JSON
NoTokenFile == [state |-> "absent", access_token |-> NoTok, expires_at |-> 0]
Corrupt == [state |-> "corrupt", access_token |-> NoTok, expires_at |-> 0]

TokIdle ==
    /\ tokKind = "exchange" /\ now = 0
    /\ cacheFile = Absent /\ tokenFile = NoTokenFile /\ mem = EmptyCache
    /\ deviceFlows = 0 /\ lastOp = "none" /\ lastRet = NoTok
    /\ lastEvents = <<>> /\ lastEnvOk = TRUE
    /\ pre = [mem |-> EmptyCache, cacheFile |-> Absent,
              tokenFile |-> NoTokenFile, now |-> 0]

TokInit ==
    /\ tokKind \in {"exchange", "oauth2_imap"}
    /\ now = 0
    /\ cacheFile = Absent
    /\ tokenFile \in (IF tokKind = "oauth2_imap" THEN {NoTokenFile, Corrupt}
                                                 ELSE {NoTokenFile})
    /\ mem = EmptyCache
    /\ deviceFlows = 0 /\ lastOp = "none" /\ lastRet = NoTok
    /\ lastEvents = <<>> /\ lastEnvOk = TRUE
    /\ pre = [mem |-> EmptyCache, cacheFile |-> Absent,
              tokenFile |-> tokenFile, now |-> 0]

\* What the environment decides during one token operation.
\*   rt      the identity provider accepts the cached refresh token
\*   dev     the device-code flow: "ok" (user authorised), "fail" (result
\*           without access_token), "raise" (no flow could be created)
\*   expIn   expires_in of a newly issued token
\*   write   writing a file succeeds
\*   remove  os.remove succeeds
\*   net     connect / authenticate / logout / the HTTP request succeed
Envs == [rt : BOOLEAN, dev : {"ok", "fail", "raise"}, expIn : 1..MaxExpiresIn,
         write : BOOLEAN, remove : BOOLEAN, net : BOOLEAN]

EnvOk(e) == e.rt /\ e.dev = "ok" /\ e.write /\ e.remove /\ e.net

Snapshot == [mem |-> mem, cacheFile |-> cacheFile, tokenFile |-> tokenFile,
             now |-> now]

\* passage of time
Tick ==
    /\ now < MaxTime
    /\ now' = now + 1
    /\ UNCHANGED <<notTok, tokKind, cacheFile, tokenFile, mem, deviceFlows,
                   lastOp, lastRet, lastEvents, lastEnvOk, pre>>

\* msal acquire_token_silent on cache c at time t: the cached access token
\* while it is valid, else a new one through the refresh token, else None.
AcquireTokenSilent(c, t, e) ==
    IF c.at.exp > t
      THEN [tok |-> c.at, cache |-> c]
      ELSE IF e.rt
        THEN [tok |-> NewToken(t, e.expIn),
              cache |-> [account |-> TRUE, at |-> NewToken(t, e.expIn)]]
        ELSE [tok |-> NoTok, cache |-> c]

\* (mutation of DeviceCodeFlow: the cache is saved whatever the result)
DeviceCodeFlow_SaveAlways(c, f, t, e) ==
    IF e.dev = "ok"
      THEN LET c2 == [account |-> TRUE, at |-> NewToken(t, e.expIn)]
           IN  [ret |-> c2.at, mem |-> c2,
                file |-> IF e.write THEN Serialize(c2) ELSE f,
                events |-> IF e.write THEN <<"device_ok", "save_cache">>
                                      ELSE <<"device_ok">>]
      ELSE [ret |-> NoTok, mem |-> c,
            file |-> IF e.write THEN Serialize(c) ELSE f,
            events |-> <<"device_fail">>]

\* OAuthHandler._device_code_flow: returns the token and saves the cache on
\* success, returns None on a failed result or on any exception.
DeviceCodeFlow(c, f, t, e) ==
    IF e.dev = "ok"
      THEN LET c2 == [account |-> TRUE, at |-> NewToken(t, e.expIn)]
           IN  [ret |-> c2.at, mem |-> c2,
                file |-> IF e.write THEN Serialize(c2) ELSE f,
                events |-> IF e.write THEN <<"device_ok", "save_cache">>
                                      ELSE <<"device_ok">>]
      ELSE [ret |-> NoTok, mem |-> c, file |-> f, events |-> <<"device_fail">>]

\* OAuthHandler.get_access_token
GetAccessToken(c, f, t, e) ==
    LET silent == AcquireTokenSilent(c, t, e)
    IN  IF c.account /\ silent.tok # NoTok
          THEN [ret |-> silent.tok, mem |-> silent.cache, file |-> f,
                events |-> <<"silent_ok">>]
          ELSE LET d == DeviceCodeFlow(c, f, t, e)
               IN  [d EXCEPT !.events =
                       (IF c.account THEN <<"silent_none">> ELSE <<>>) \o @]

NumFlows(events) ==
    Cardinality({i \in 1..Len(events) : events[i] \in {"device_ok", "device_fail"}})

\* OAuthHandler.__init__ with _load_token_cache: a new handler whose cache is
\* read from the cache file when there is one
OAuthHandlerInit ==
    /\ tokKind = "exchange"
    /\ lastOp # "init"
    /\ mem' = (IF cacheFile # Absent THEN Deserialize(cacheFile) ELSE EmptyCache)
    /\ lastOp' = "init" /\ lastRet' = NoTok /\ lastEvents' = <<>>
    /\ lastEnvOk' = TRUE
    /\ pre' = Snapshot
    /\ UNCHANGED <<notTok, tokKind, now, cacheFile, tokenFile, deviceFlows>>

\* a caller invokes OAuthHandler.get_access_token
OAuthHandlerGetAccessToken ==
    /\ tokKind = "exchange"
    /\ deviceFlows < MaxFlows
    /\ \E e \in Envs :
          LET r == GetAccessToken(mem, cacheFile, now, e)
          IN  /\ mem' = r.mem
              /\ cacheFile' = r.file
              /\ lastRet' = r.ret
              /\ lastEvents' = r.events
              /\ deviceFlows' = deviceFlows + NumFlows(r.events)
              /\ lastEnvOk' = EnvOk(e)
    /\ lastOp' = "get"
    /\ pre' = Snapshot
    /\ UNCHANGED <<notTok, tokKind, now, tokenFile>>

\* OAuthHandler.revoke_token: inside one try block, remove the cache file
\* if it exists, then clear the in-memory cache; any exception is printed.
RevokeToken(c, f, e) ==
    IF f # Absent /\ ~e.remove
      THEN [mem |-> c, file |-> f, events |-> <<"remove_failed">>]
      ELSE [mem |-> EmptyCache, file |-> Absent,
            events |-> IF f # Absent THEN <<"remove", "clear">> ELSE <<"clear">>]

OAuthHandlerRevokeToken ==
    /\ tokKind = "exchange"
    /\ \E e \in Envs :
          LET r == RevokeToken(mem, cacheFile, e)
          IN  /\ mem' = r.mem
              /\ cacheFile' = r.file
              /\ lastEvents' = r.events
              /\ lastEnvOk' = EnvOk(e)
    /\ lastOp' = "revoke" /\ lastRet' = NoTok
    /\ pre' = Snapshot
    /\ UNCHANGED <<notTok, tokKind, now, tokenFile, deviceFlows>>

\* MicrosoftExchangeCollector.test_connection over the token handler:
\* get_user_profile -> _make_request -> _get_headers -> get_access_token,
\* then GET /me; True on a 200 answer, False on any exception.
ExchangeTestConnection ==
    /\ tokKind = "exchange"
    /\ deviceFlows < MaxFlows
    /\ \E e \in Envs :
          LET r == GetAccessToken(mem, cacheFile, now, e)
          IN  /\ mem' = r.mem
              /\ cacheFile' = r.file
              /\ lastRet' = (IF r.ret # NoTok /\ e.net THEN TrueRet ELSE FalseRet)
              /\ lastEvents' = (IF r.ret # NoTok THEN r.events \o <<"http_profile">>
                                                 ELSE r.events)
              /\ deviceFlows' = deviceFlows + NumFlows(r.events)
              /\ lastEnvOk' = EnvOk(e)
    /\ lastOp' = "test"
    /\ pre' = Snapshot
    /\ UNCHANGED <<notTok, tokKind, now, tokenFile>>

\* ------------------------------------------ OAuth2IMAPCollector tokens
\* _load_access_token: the stored token when the file is readable and
\* datetime.now() < expires_at, else None
LoadAccessToken(tf, t) ==
    IF tf.state # "ok" THEN NoTok
    ELSE IF t < tf.expires_at THEN tf.access_token ELSE NoTok

\* _save_access_token(access_token, expires_in)
SavedAccessToken(tok, expIn, t) ==
    [state |-> "ok", access_token |-> tok, expires_at |-> t + expIn]

\* _load_cache: `return msal.SerializableTokenCache().deserialize(f.read())`
\* when the file exists, a new SerializableTokenCache() otherwise.
\* deserialize() loads in place and returns None (OAuthHandler calls it as a
\* statement for that reason), so the existing-file branch returns None.
NoneObj == [account |-> FALSE, at |-> Raised]
LoadCache(cf) == IF cf # Absent THEN NoneObj ELSE EmptyCache

\* msal.PublicClientApplication(..., token_cache=cache): the application
\* works on the given cache, or on a new empty one when given None
AppCache(cache) == IF cache = NoneObj THEN EmptyCache ELSE cache

\* _save_cache(cache): `if cache.has_state_changed:` write the file.
\* Reading the attribute of None raises AttributeError.
SaveCache(cache, appc, changed, cf, e) ==
    IF cache = NoneObj THEN [raised |-> TRUE, file |-> cf, events |-> <<>>]
    ELSE IF ~changed THEN [raised |-> FALSE, file |-> cf, events |-> <<>>]
    ELSE IF e.write THEN [raised |-> FALSE, file |-> Serialize(appc),
                          events |-> <<"save_cache">>]
    ELSE [raised |-> TRUE, file |-> cf, events |-> <<>>]

\* the two saves and the return that follow a token result in _acquire_token
SaveAndReturn(cache, appc, changed, tok, expIn, cf, tf, t, e, evs) ==
    LET sc == SaveCache(cache, appc, changed, cf, e)
    IN  IF sc.raised
          THEN [ret |-> Raised, cacheFile |-> sc.file, tokenFile |-> tf,
                events |-> evs \o sc.events]
        ELSE IF tok = NoTok           \* result["access_token"]: KeyError
          THEN [ret |-> Raised, cacheFile |-> sc.file, tokenFile |-> tf,
                events |-> evs \o sc.events]
        ELSE IF ~e.write
          THEN [ret |-> Raised, cacheFile |-> sc.file, tokenFile |-> tf,
                events |-> evs \o sc.events]
        ELSE [ret |-> tok, cacheFile |-> sc.file,
              tokenFile |-> SavedAccessToken(tok, expIn, t),
              events |-> evs \o sc.events \o <<"save_token">>]

\* OAuth2IMAPCollector._acquire_token
AcquireToken(cf, tf, t, e) ==
    LET cached == LoadAccessToken(tf, t)
        cache == LoadCache(cf)
        appc == AppCache(cache)
        silent == AcquireTokenSilent(appc, t, e)
    IN  IF cached # NoTok
          THEN [ret |-> cached, cacheFile |-> cf, tokenFile |-> tf,
                events |-> <<"load_token_hit">>]
        ELSE IF appc.account /\ silent.tok # NoTok
          THEN SaveAndReturn(cache, silent.cache, silent.cache # appc,
                             silent.tok, silent.tok.exp - t, cf, tf, t, e,
                             <<"silent_ok">>)
        ELSE LET evs == IF appc.account THEN <<"silent_none">> ELSE <<>>
             IN  IF e.dev = "raise"      \* flow['verification_uri']: KeyError
                   THEN [ret |-> Raised, cacheFile |-> cf, tokenFile |-> tf,
                         events |-> evs \o <<"device_fail">>]
                 ELSE IF e.dev = "fail"
                   THEN SaveAndReturn(cache, appc, FALSE, NoTok, 0, cf, tf, t,
                                      e, evs \o <<"device_fail">>)
                 ELSE SaveAndReturn(cache,
                         [account |-> TRUE, at |-> NewToken(t, e.expIn)], TRUE,
                         NewToken(t, e.expIn), e.expIn, cf, tf, t, e,
                         evs \o <<"device_ok">>)

\* a caller invokes OAuth2IMAPCollector._acquire_token
OAuth2AcquireToken ==
    /\ tokKind = "oauth2_imap"
    /\ deviceFlows < MaxFlows
    /\ \E e \in Envs :
          LET r == AcquireToken(cacheFile, tokenFile, now, e)
          IN  /\ cacheFile' = r.cacheFile
              /\ tokenFile' = r.tokenFile
              /\ lastRet' = r.ret
              /\ lastEvents' = r.events
              /\ deviceFlows' = deviceFlows + NumFlows(r.events)
              /\ lastEnvOk' = EnvOk(e)
    /\ lastOp' = "acquire"
    /\ pre' = Snapshot
    /\ UNCHANGED <<notTok, tokKind, now, mem>>

\* OAuth2IMAPCollector.test_connection: _connect (open the socket, acquire
\* the token, authenticate XOAUTH2) and logout; False on any exception.
\* e.net stands for the socket, the SASL exchange and the logout.
OAuth2TestConnection ==
    /\ tokKind = "oauth2_imap"
    /\ deviceFlows < MaxFlows
    /\ \E e \in Envs, sock \in BOOLEAN :
          LET r == AcquireToken(cacheFile, tokenFile, now, e)
          IN  IF ~sock
                THEN /\ lastRet' = FalseRet /\ lastEvents' = <<>>
                     /\ lastEnvOk' = FALSE
                     /\ UNCHANGED <<cacheFile, tokenFile, deviceFlows>>
                ELSE /\ cacheFile' = r.cacheFile
                     /\ tokenFile' = r.tokenFile
                     /\ lastRet' = (IF r.ret \notin {Raised, NoTok} /\ e.net
                                      THEN TrueRet ELSE FalseRet)
                     /\ lastEvents' = r.events
                     /\ deviceFlows' = deviceFlows + NumFlows(r.events)
                     /\ lastEnvOk' = EnvOk(e)
    /\ lastOp' = "test"
    /\ pre' = Snapshot
    /\ UNCHANGED <<notTok, tokKind, now, mem>>

\* ------------------------------------------- MailCollector._save_emails
SaveIdle ==
    /\ svPc = "idle" /\ svMessages = <<>> /\ svGiven = <<>> /\ svPos = 1
    /\ svSavedFiles = <<>> /\ svErrors = <<>> /\ svGivenErrors = <<>>
    /\ svOutcomes = <<>> /\ svSaveAtt = FALSE
    /\ svFormat = "json" /\ svDisk = {}

\* the path save_to_file returns for a message
FilePath(id) == <<"file", id>>
SaveError(id) == <<"save", id>>

\* the formats save_to_file has a branch for; any other value reaches
\*   else: raise ValueError(f"Unsupported format: {format}")
OutputFormats == {"json", "txt", "eml"}

\* MailCollector.collect_emails calls _save_emails(result, options) on the
\* collector's result when options.output_dir is set: some messages, and
\* the errors the collection left.
SaveEmailsCall ==
    /\ svPc = "idle"
    /\ \E msgs \in InjSeqs(MaxSave), errs \in {<<>>, <<ConnError>>},
          att \in BOOLEAN, fmt \in OutputFormats \cup {"xml"} :
          /\ svMessages' = msgs
          /\ svGiven' = msgs
          /\ svErrors' = errs
          /\ svGivenErrors' = errs
          /\ svSaveAtt' = att
          /\ svFormat' = fmt
    /\ svPc' = "loop"
    /\ UNCHANGED <<notSave, svPos, svSavedFiles, svOutcomes, svDisk>>

\* (mutation of SaveBody: the path is recorded before the file is written)
SaveBody_PathFirst(id, outcome) ==
    CASE outcome = "ok" ->
           /\ svSavedFiles' = Append(svSavedFiles, FilePath(id))
           /\ svDisk' = svDisk \cup {FilePath(id)}
           /\ UNCHANGED svErrors
      [] outcome = "save_raises" ->
           /\ svSavedFiles' = Append(svSavedFiles, FilePath(id))
           /\ svErrors' = Append(svErrors, SaveError(id))
           /\ svDisk' \in {svDisk} \cup
                 (IF svFormat \in OutputFormats
                    THEN {svDisk \cup {FilePath(id)}} ELSE {})
      [] outcome = "attach_raises" ->
           /\ svSavedFiles' = Append(svSavedFiles, FilePath(id))
           /\ svDisk' = svDisk \cup {FilePath(id)}
           /\ svErrors' = Append(svErrors, SaveError(id))

\* body of `for email in result.messages` for one email:
\*   "ok"            the file (and the attachments) were written
\*   "save_raises"   the directory name or save_to_file raised; the file
\*                   was opened before that only when the format has a branch
\*   "attach_raises" the file was written, then _save_attachments raised
SaveBody(id, outcome) ==
    CASE outcome = "ok" ->
           /\ svSavedFiles' = Append(svSavedFiles, FilePath(id))
           /\ svDisk' = svDisk \cup {FilePath(id)}
           /\ UNCHANGED svErrors
      [] outcome = "save_raises" ->
           /\ svErrors' = Append(svErrors, SaveError(id))
           /\ svDisk' \in {svDisk} \cup
                 (IF svFormat \in OutputFormats
                    THEN {svDisk \cup {FilePath(id)}} ELSE {})
           /\ UNCHANGED svSavedFiles
      [] outcome = "attach_raises" ->
           /\ svSavedFiles' = Append(svSavedFiles, FilePath(id))
           /\ svDisk' = svDisk \cup {FilePath(id)}
           /\ svErrors' = Append(svErrors, SaveError(id))

\* (mutation of SaveOutcomes: an unknown format is saved as json)
SaveOutcomes_DefaultJson(fmt, att) ==
    {"ok", "save_raises"} \cup (IF att THEN {"attach_raises"} ELSE {})

\* what can happen to one email of the loop: save_to_file returns a path
\* only through one of its three format branches
SaveOutcomes(fmt, att) ==
    IF fmt \in OutputFormats
      THEN {"ok", "save_raises"} \cup (IF att THEN {"attach_raises"} ELSE {})
      ELSE {"save_raises"}

SaveOneEmail ==
    /\ svPc = "loop"
    /\ svPos <= Len(svMessages)
    /\ \E outcome \in SaveOutcomes(svFormat, svSaveAtt) :
          /\ SaveBody(svMessages[svPos], outcome)
          /\ svOutcomes' = Append(svOutcomes, <<svMessages[svPos], outcome>>)
    /\ svPos' = svPos + 1
    /\ UNCHANGED <<notSave, svPc, svMessages, svGiven, svGivenErrors, svSaveAtt,
                   svFormat>>

SaveEmailsReturn ==
    /\ svPc = "loop"
    /\ svPos > Len(svMessages)
    /\ svPc' = "done"
    /\ UNCHANGED <<notSave, svMessages, svGiven, svPos, svSavedFiles, svErrors,
                   svGivenErrors, svOutcomes, svSaveAtt, svFormat, svDisk>>

SaveNext == SaveEmailsCall \/ SaveOneEmail \/ SaveEmailsReturn

\* ------------------------------------------------------ filter functions
\* A string is a sequence of letters: n > 0 is a lower-case letter, -n the
\* same letter in upper case.  An Optional[str] is [set, val], None being
\* set = FALSE.  A datetime is a day t, naive or timezone-aware.
NoneStr == [set |-> FALSE, val |-> <<>>]
Str(v) == [set |-> TRUE, val |-> v]
NoneDate == [set |-> FALSE, t |-> 0, aware |-> FALSE]
Date(t, a) == [set |-> TRUE, t |-> t, aware |-> a]

\* str.lower()
Lower(v) == [i \in 1..Len(v) |-> IF v[i] < 0 THEN 0 - v[i] ELSE v[i]]

\* a in b for strings
IsSubstring(a, b) ==
    \E i \in 0..(Len(b) - Len(a)) : SubSeq(b, i + 1, i + Len(a)) = a

\* truth value of an Optional[str] in `if filter_criteria.sender:`
Truthy(x) == x.set /\ x.val # <<>>

\* filter_criteria: None (none = TRUE) or an EmailFilter
NoFilter ==
    [none |-> TRUE, sender |-> NoneStr, recipient |-> NoneStr,
     subject_contains |-> NoneStr, body_contains |-> NoneStr,
     date_from |-> NoneDate, date_to |-> NoneDate, has_attachments |-> "None"]

FilterStrs == {NoneStr, Str(<<>>), Str(<<0 - 1>>)}
FilterDates == {NoneDate, Date(1, FALSE), Date(1, TRUE)}

Filters ==
    {NoFilter} \cup
    [none : {FALSE}, sender : FilterStrs, recipient : FilterStrs,
     subject_contains : FilterStrs, body_contains : FilterStrs,
     date_from : FilterDates, date_to : FilterDates,
     has_attachments : {"None", "True", "False"}]

\* EmailMessage: the fields _matches_filter reads.  date is aware when the
\* Date header parsed with %z, naive when _message_to_email fell back to
\* datetime.now().
Bodies == {<<NoneStr, NoneStr>>, <<Str(<<1>>), NoneStr>>,
           <<NoneStr, Str(<<0 - 1>>)>>}

Messages ==
    {[sender |-> sd, recipients |-> rc, subject |-> sj, body_text |-> bd[1],
      body_html |-> bd[2], date |-> Date(t, a), attachments |-> at] :
       sd \in {<<2>>, <<2, 1>>}, rc \in {<<>>, << <<1>> >>, << <<2, 1>> >>},
       sj \in {<<2>>, <<0 - 1, 2>>}, bd \in Bodies,
       t \in 0..MaxDate, a \in BOOLEAN, at \in 0..1}

NoMessage ==
    [sender |-> <<>>, recipients |-> <<>>, subject |-> <<>>,
     body_text |-> NoneStr, body_html |-> NoneStr, date |-> Date(0, FALSE),
     attachments |-> 0]

\* one search key with its argument; strftime('%d-%b-%Y') keeps the day
Key(k, arg) == [key |-> k, arg |-> arg]
All == <<Key("ALL", <<>>)>>

\* IMAPCollector._build_search_criteria; the result is the space-joined
\* keys, here the sequence of keys
BuildSearchCriteria(f) ==
    IF f.none THEN All
    ELSE LET criteria ==
               (IF Truthy(f.sender)
                  THEN <<Key("FROM", f.sender.val)>> ELSE <<>>)
            \o (IF Truthy(f.recipient)
                  THEN <<Key("TO", f.recipient.val)>> ELSE <<>>)
            \o (IF Truthy(f.subject_contains)
                  THEN <<Key("SUBJECT", f.subject_contains.val)>> ELSE <<>>)
            \o (IF Truthy(f.body_contains)
                  THEN <<Key("BODY", f.body_contains.val)>> ELSE <<>>)
            \o (IF f.date_from.set
                  THEN <<Key("SINCE", <<f.date_from.t>>)>> ELSE <<>>)
            \o (IF f.date_to.set
                  THEN <<Key("BEFORE", <<f.date_to.t>>)>> ELSE <<>>)
            \o (IF f.has_attachments = "True"
                  THEN <<Key("HASATTACH", <<>>)>> ELSE <<>>)
         IN  IF criteria # <<>> THEN criteria ELSE All

\* message.date < other / message.date > other: comparing a naive with an
\* aware datetime raises TypeError
Comparable(d, e) == d.aware = e.aware

\* (message.body_text or "")
OrEmpty(x) == IF Truthy(x) THEN x.val ELSE <<>>

\* POP3Collector._matches_filter, test by test in the order of the code
MatchesFilterResult(message, f) ==
    IF f.none THEN "true"
    ELSE IF Truthy(f.sender)
            /\ ~IsSubstring(Lower(f.sender.val), Lower(message.sender))
      THEN "false"
    ELSE IF Truthy(f.recipient)
            /\ Lower(f.recipient.val) \notin
                  {Lower(message.recipients[i]) :
                     i \in 1..Len(message.recipients)}
      THEN "false"
    ELSE IF Truthy(f.subject_contains)
            /\ ~IsSubstring(Lower(f.subject_contains.val),
                            Lower(message.subject))
      THEN "false"
    ELSE IF Truthy(f.body_contains)
            /\ ~IsSubstring(Lower(f.body_contains.val),
                            Lower(OrEmpty(message.body_text)))
            /\ ~IsSubstring(Lower(f.body_contains.val),
                            Lower(OrEmpty(message.body_html)))
      THEN "false"
    ELSE IF f.date_from.set /\ ~Comparable(message.date, f.date_from)
      THEN "TypeError"
    ELSE IF f.date_from.set /\ message.date.t < f.date_from.t
      THEN "false"
    ELSE IF f.date_to.set /\ ~Comparable(message.date, f.date_to)
      THEN "TypeError"
    ELSE IF f.date_to.set /\ message.date.t > f.date_to.t
      THEN "false"
    ELSE IF f.has_attachments = "True" /\ message.attachments = 0
      THEN "false"
    ELSE IF f.has_attachments = "False" /\ message.attachments # 0
      THEN "false"
    ELSE "true"

\* MicrosoftExchangeCollector._build_filter_query; the result is the
\* ' and '-joined clauses, here the sequence of clauses (<<>>: None)
BuildFilterQuery(f) ==
    IF f.none THEN <<>>
    ELSE (IF f.date_from.set
            THEN <<Key("receivedDateTime ge", <<f.date_from.t>>)>> ELSE <<>>)
      \o (IF f.date_to.set
            THEN <<Key("receivedDateTime le", <<f.date_to.t>>)>> ELSE <<>>)
      \o (IF Truthy(f.sender)
            THEN <<Key("from/emailAddress/address eq", f.sender.val)>>
            ELSE <<>>)
      \o (IF f.has_attachments # "None"
            THEN <<Key("hasAttachments eq",
                       IF f.has_attachments = "True" THEN <<1>> ELSE <<0>>)>>
            ELSE <<>>)

\* the query parameters of a request: $search (search_messages) and
\* $filter (get_messages, `if filter_query:`)
NoQuery == [search |-> NoneStr, filter |-> <<>>]

\* MicrosoftExchangeCollector.collect_emails:
\*   if filter_criteria and filter_criteria.subject_contains:
\*       search_messages(query=filter_criteria.subject_contains, ...)
\*   else: get_all_messages(..., filter_query=filter_query)
ExchangeQuery(f) ==
    IF ~f.none /\ Truthy(f.subject_contains)
      THEN [search |-> Str(f.subject_contains.val), filter |-> <<>>]
      ELSE [search |-> NoneStr, filter |-> BuildFilterQuery(f)]

FltIdle ==
    /\ fPc = "idle" /\ fFilter = NoFilter /\ fMsg = NoMessage
    /\ fCriteria = <<>> /\ fMatch = "none" /\ fQuery = NoQuery

\* criteria = self._build_search_criteria(filter_criteria)
BuildCriteriaCall ==
    /\ fPc = "idle"
    /\ fCriteria' = BuildSearchCriteria(fFilter)
    /\ fPc' = "built"
    /\ UNCHANGED <<notFlt, fFilter, fMsg, fMatch, fQuery>>

\* self._matches_filter(email_msg, filter_criteria) on some message
MatchesFilterCall ==
    /\ fPc = "built"
    /\ \E message \in Messages :
          /\ fMsg' = message
          /\ fMatch' = MatchesFilterResult(message, fFilter)
    /\ fPc' = "matched"
    /\ UNCHANGED <<notFlt, fFilter, fCriteria, fQuery>>

\* Exchange collect_emails called with the filter: the query of its request
ExchangeQueryCall ==
    /\ fPc = "built"
    /\ fQuery' = ExchangeQuery(fFilter)
    /\ fPc' = "queried"
    /\ UNCHANGED <<notFlt, fFilter, fMsg, fCriteria, fMatch>>

FltNext == BuildCriteriaCall \/ MatchesFilterCall \/ ExchangeQueryCall

\* ------------------------------ Exchange _process_email: attachments
AttIdle ==
    /\ aPc = "idle" /\ aOp = "collect" /\ aSubject = FALSE
    /\ aInclude = FALSE /\ aAtts = 0 /\ aList = <<>> /\ aPos = 1
    /\ aLog = <<>> /\ aKept = <<>> /\ aRet = "none"

\* which request delivers the message: collect_emails uses search_messages
\* when subject_contains is set, get_all_messages otherwise; astream_emails
\* always uses get_all_messages
ExPath(o, subject) ==
    IF o = "collect" /\ subject THEN "search" ELSE "walk"

\* email.get("attachments", []) of a message with n attachments:
\* get_messages asks for "$expand": "attachments", search_messages sends
\* only $search, $top and $orderby, so its items carry no attachments list
ExpandedAttachments(path, n) == IF path = "walk" THEN Ids(n) ELSE <<>>

\* collect_emails / astream_emails called with include_attachments and a
\* filter; one message of the answer reaches _process_email
ProcessEmailCall ==
    /\ aPc = "idle"
    /\ \E o \in CollectOps, subject \in BOOLEAN, inc \in BOOLEAN,
          n \in 0..MaxAtt :
          /\ aOp' = o /\ aSubject' = subject /\ aInclude' = inc /\ aAtts' = n
          /\ aList' = ExpandedAttachments(ExPath(o, subject), n)
    /\ aPc' = "email"
    /\ UNCHANGED <<notAtt, aPos, aLog, aKept, aRet>>

\* _process_email: `if include_attachments and email.get("hasAttachments"):`
\* calls _process_attachments, otherwise attachments stays []
ProcessEmail ==
    /\ aPc = "email"
    /\ IF aInclude /\ aAtts > 0
         THEN aPc' = "mkdir" /\ UNCHANGED aRet
         ELSE aPc' = "done" /\ aRet' = "message"
    /\ UNCHANGED <<notAtt, aOp, aSubject, aInclude, aAtts, aList, aPos, aLog,
                   aKept>>

\* _process_attachments: Path(attachment_dir).mkdir(exist_ok=True), outside
\* the try of the loop: when it raises _process_email raises and the caller
\* drops the message
ProcessAttachmentsMkdir ==
    /\ aPc = "mkdir"
    /\ \E ok \in BOOLEAN :
          IF ok THEN aPc' = "loop" /\ UNCHANGED aRet
                ELSE aPc' = "done" /\ aRet' = "raised"
    /\ UNCHANGED <<notAtt, aOp, aSubject, aInclude, aAtts, aList, aPos, aLog,
                   aKept>>

\* body of `for attachment in attachments`: download_attachment, append,
\* write the file; any exception is logged and the loop continues
\*   "ok"          downloaded and written
\*   "raise"       download_attachment raised
\*   "write_raise" the file could not be written, after the append
ProcessAttachmentBody(att, outcome) ==
    /\ aLog' = Append(aLog, <<att, outcome>>)
    /\ aPos' = aPos + 1
    /\ aKept' = IF outcome = "raise" THEN aKept ELSE Append(aKept, att)

ProcessAttachment ==
    /\ aPc = "loop" /\ aPos <= Len(aList)
    /\ \E outcome \in {"ok", "raise", "write_raise"} :
          ProcessAttachmentBody(aList[aPos], outcome)
    /\ UNCHANGED <<notAtt, aPc, aOp, aSubject, aInclude, aAtts, aList, aRet>>

\* return processed_attachments; _process_email returns the EmailMessage
ProcessEmailReturn ==
    /\ aPc = "loop" /\ aPos > Len(aList)
    /\ aPc' = "done" /\ aRet' = "message"
    /\ UNCHANGED <<notAtt, aOp, aSubject, aInclude, aAtts, aList, aPos, aLog,
                   aKept>>

AttNext ==
    \/ ProcessEmailCall
    \/ ProcessEmail
    \/ ProcessAttachmentsMkdir
    \/ ProcessAttachment
    \/ ProcessEmailReturn

\* -------------------------------- concurrent invocations, one instance
\* acollect_emails, aget_folders and atest_connection hand the synchronous
\* method to the thread-pool executor (run_in_executor), so invocations on
\* one instance run as threads whose steps interleave.
Callers == 1..MaxCallers
ConnKinds == {"imap", "oauth2_imap", "pop3"}

ConcIdle ==
    /\ cKind = "imap"
    /\ cPc = [i \in Callers |-> "idle"] /\ cOp = [i \in Callers |-> "none"]
    /\ cConn = [i \in Callers |-> 0] /\ cCmdIdx = [i \in Callers |-> 1]
    /\ cOpened = 0
    /\ cUsers = [c \in Callers |-> {}] /\ cInFlight = [c \in Callers |-> 0]

\* the commands an invocation sends on its connection after the login
Commands(k, o) ==
    CASE k = "pop3" /\ o = "collect" -> <<"stat", "retr", "quit">>
      [] k = "pop3" /\ o = "test" -> <<"quit">>
      [] k = "pop3" /\ o = "folders" -> <<>>
      [] k # "pop3" /\ o = "collect" ->
            <<"select", "search", "fetch", "close", "logout">>
      [] k # "pop3" /\ o = "folders" -> <<"list", "logout">>
      [] k # "pop3" /\ o = "test" -> <<"logout">>

\* POP3Collector.get_folders returns ["INBOX"] without a connection
OpensConnection(k, o) == ~(k = "pop3" /\ o = "folders")

\* (mutation of NewConnection: one connection object is kept and handed
\* to every invocation)
NewConnection_Reuse(opened) == IF opened = 0 THEN 1 ELSE opened

\* _connect: `connection = imaplib.IMAP4_SSL(...)` / `poplib.POP3_SSL(...)`
\* builds a new object on every call and returns it; self._connection is
\* never assigned
NewConnection(opened) == opened + 1

\* an invocation starts on the instance
ConcInvoke(i) ==
    /\ cPc[i] = "idle"
    /\ \E o \in {"collect", "folders", "test"} :
          /\ cOp' = [cOp EXCEPT ![i] = o]
          /\ cPc' = [cPc EXCEPT ![i] =
                       IF OpensConnection(cKind, o) THEN "connect" ELSE "done"]
    /\ UNCHANGED <<notConc, cKind, cConn, cCmdIdx, cOpened, cUsers, cInFlight>>

\* connection = self._connect(): the new connection with its login, or an
\* exception that ends the invocation
ConcConnect(i) ==
    /\ cPc[i] = "connect"
    /\ \/ /\ cOpened' = NewConnection(cOpened)
          /\ cConn' = [cConn EXCEPT ![i] = NewConnection(cOpened)]
          /\ cUsers' = [cUsers EXCEPT ![NewConnection(cOpened)] = @ \cup {i}]
          /\ cPc' = [cPc EXCEPT ![i] = "send"]
       \/ /\ cPc' = [cPc EXCEPT ![i] = "done"]
          /\ UNCHANGED <<cOpened, cConn, cUsers>>
    /\ UNCHANGED <<notConc, cKind, cOp, cCmdIdx, cInFlight>>

\* the invocation sends its next command on its local `connection`
ConcSend(i) ==
    /\ cPc[i] = "send"
    /\ cUsers' = [cUsers EXCEPT ![cConn[i]] = @ \cup {i}]
    /\ cInFlight' = [cInFlight EXCEPT ![cConn[i]] = @ + 1]
    /\ cPc' = [cPc EXCEPT ![i] = "wait"]
    /\ UNCHANGED <<notConc, cKind, cOp, cConn, cCmdIdx, cOpened>>

\* the answer arrives (imaplib and poplib calls block until then): the
\* next command, the return after the last one, or an exception that ends
\* the invocation
ConcReply(i) ==
    /\ cPc[i] = "wait"
    /\ cInFlight' = [cInFlight EXCEPT ![cConn[i]] = @ - 1]
    /\ \E ok \in BOOLEAN :
          IF ok /\ cCmdIdx[i] < Len(Commands(cKind, cOp[i]))
            THEN /\ cCmdIdx' = [cCmdIdx EXCEPT ![i] = @ + 1]
                 /\ cPc' = [cPc EXCEPT ![i] = "send"]
            ELSE /\ cPc' = [cPc EXCEPT ![i] = "done"]
                 /\ UNCHANGED cCmdIdx
    /\ UNCHANGED <<notConc, cKind, cOp, cConn, cOpened, cUsers>>

ConcInvokes == \E i \in Callers : ConcInvoke(i)
ConcConnects == \E i \in Callers : ConcConnect(i)
ConcSends == \E i \in Callers : ConcSend(i)
ConcReplies == \E i \in Callers : ConcReply(i)

ConcNext == ConcInvokes \/ ConcConnects \/ ConcSends \/ ConcReplies

ConcInit ==
    /\ cKind \in ConnKinds
    /\ cPc = [i \in Callers |-> "idle"] /\ cOp = [i \in Callers |-> "none"]
    /\ cConn = [i \in Callers |-> 0] /\ cCmdIdx = [i \in Callers |-> 1]
    /\ cOpened = 0
    /\ cUsers = [c \in Callers |-> {}] /\ cInFlight = [c \in Callers |-> 0]

\* ------------------------------------------- ExchangeClient._make_request
ReqIdle ==
    /\ rqPc = "idle" /\ rqUrl = "none" /\ rqDepth = 0 /\ rqToken = 0
    /\ rqHeader = 0 /\ rqSent = <<>> /\ rqTokenCalls = <<>>
    /\ rqRetryAfter = 0 /\ rqSlept = <<>> /\ rqRet = "none"

Urls == {"me", "messages"}
Tokens == {1, 2}

\* a caller (get_user_profile, get_messages, ...) invokes _make_request
MakeRequestCall ==
    /\ rqPc = "idle"
    /\ \E u \in Urls : rqUrl' = u
    /\ rqPc' = "headers"
    /\ rqDepth' = 1
    /\ UNCHANGED <<notReq, rqToken, rqHeader, rqSent, rqTokenCalls,
                   rqRetryAfter, rqSlept, rqRet>>

\* (mutation of UpdateHeaders: headers already in kwargs are kept)
UpdateHeaders_KeepFirst(old, t) == IF old = 0 THEN t ELSE old

\* kwargs.setdefault('headers', {}).update(headers): the Authorization
\* header of the call's kwargs becomes the one just built, also when the
\* kwargs come from the invocation that was rate-limited
UpdateHeaders(old, t) == t

\* headers = self._get_headers(); kwargs.setdefault('headers', {}).update(headers)
\* _get_headers raises ValueError when get_access_token returns None (0).
GetHeaders ==
    /\ rqPc = "headers"
    /\ \E t \in Tokens \cup {0} :
          /\ rqTokenCalls' = Append(rqTokenCalls, <<t, rqDepth>>)
          /\ IF t = 0
               THEN /\ rqRet' = "raised" /\ rqPc' = "done"
                    /\ UNCHANGED <<rqToken, rqHeader>>
               ELSE /\ rqToken' = t /\ rqHeader' = UpdateHeaders(rqHeader, t)
                    /\ rqPc' = "send"
                    /\ UNCHANGED rqRet
    /\ UNCHANGED <<notReq, rqUrl, rqDepth, rqSent, rqRetryAfter, rqSlept>>

\* response = self.session.request(method, url, **kwargs) and the test of
\* response.status_code == 429 with the parse of Retry-After
SendRequest ==
    /\ rqPc = "send"
    /\ Len(rqSent) < MaxSends
    /\ rqSent' = Append(rqSent, <<rqUrl, rqHeader, rqDepth>>)
    /\ \/ /\ rqRet' = "response" /\ rqPc' = "done"      \* any status but 429
          /\ UNCHANGED rqRetryAfter
       \/ /\ rqRet' = "raised" /\ rqPc' = "done"        \* transport error
          /\ UNCHANGED rqRetryAfter
       \/ /\ \E ra \in (1..MaxRetryAfter) \cup {DefaultRetryAfter} :
                rqRetryAfter' = ra                       \* 429
          /\ rqPc' = "sleep"
          /\ UNCHANGED rqRet
    /\ UNCHANGED <<notReq, rqUrl, rqDepth, rqToken, rqHeader, rqTokenCalls,
                   rqSlept>>

\* time.sleep(retry_after); return self._make_request(method, url, **kwargs)
\* The nested invocation runs the same code; its result is returned as is.
SleepAndRetry ==
    /\ rqPc = "sleep"
    /\ rqSlept' = Append(rqSlept, rqRetryAfter)
    /\ rqDepth' = rqDepth + 1
    /\ rqToken' = 0
    /\ rqPc' = "headers"
    /\ UNCHANGED <<notReq, rqUrl, rqHeader, rqSent, rqTokenCalls,
                   rqRetryAfter, rqRet>>

CollIdle == CallIdle /\ kind = "exchange" /\ mboxSize = 0
              /\ linkForm = "skiptoken" /\ pageCap = 1
              /\ credsGiven = TRUE /\ noHeader = {}

ReqInit == ReqIdle /\ CollIdle /\ TokIdle /\ SaveIdle /\ FltIdle /\ AttIdle
           /\ ConcIdle

ReqNext == MakeRequestCall \/ GetHeaders \/ SendRequest \/ SleepAndRetry

SpecRequest == ReqInit /\ [][ReqNext]_vars

TokNext ==
    \/ Tick
    \/ OAuthHandlerInit
    \/ OAuthHandlerGetAccessToken
    \/ OAuthHandlerRevokeToken
    \/ ExchangeTestConnection
    \/ OAuth2AcquireToken
    \/ OAuth2TestConnection

TokSpecInit == TokInit /\ CollIdle /\ ReqIdle /\ SaveIdle /\ FltIdle /\ AttIdle
               /\ ConcIdle

SpecToken == TokSpecInit /\ [][TokNext]_vars

SaveInit == SaveIdle /\ CollIdle /\ ReqIdle /\ TokIdle /\ FltIdle /\ AttIdle
            /\ ConcIdle

FltInit ==
    /\ fPc = "idle" /\ fFilter \in Filters /\ fMsg = NoMessage
    /\ fCriteria = <<>> /\ fMatch = "none" /\ fQuery = NoQuery
    /\ CollIdle /\ ReqIdle /\ TokIdle /\ SaveIdle /\ AttIdle
    /\ ConcIdle

SpecFilter == FltInit /\ [][FltNext]_vars

SpecSave == SaveInit /\ [][SaveNext]_vars

AttInit == AttIdle /\ CollIdle /\ ReqIdle /\ TokIdle /\ SaveIdle /\ FltIdle
           /\ ConcIdle

SpecAttach == AttInit /\ [][AttNext]_vars

ConcSpecInit ==
    ConcInit /\ CollIdle /\ ReqIdle /\ TokIdle /\ SaveIdle /\ FltIdle /\ AttIdle

SpecConcurrent == ConcSpecInit /\ [][ConcNext]_vars

Init == CollInit /\ ReqIdle /\ TokIdle /\ SaveIdle /\ FltIdle /\ AttIdle
        /\ ConcIdle

Next ==
    \/ Call
    \/ ImapConnect
    \/ ImapSelect
    \/ ImapSearch
    \/ ImapFetch
    \/ ImapClose
    \/ ImapReturn
    \/ Pop3Connect
    \/ Pop3Stat
    \/ Pop3Retr
    \/ Pop3Quit
    \/ Pop3Return
    \/ StreamYield
    \/ ImapTestConnection
    \/ OAuth2ImapTestConnection
    \/ Pop3TestConnection
    \/ ExTestConnection
    \/ ExSearchMessages
    \/ GamLimitBreak
    \/ GamRequest
    \/ GamYield
    \/ GamNextLink
    \/ ExProcess
    \/ ExReturn

Spec == Init /\ [][Next]_vars

\* =================================================================== claims
\* ids of the entries of an outcome log whose outcome is in S, in log order
RECURSIVE IdsWith(_, _)
IdsWith(log, S) ==
    IF log = <<>> THEN <<>>
    ELSE (IF log[1][2] \in S THEN <<log[1][1]>> ELSE <<>>)
           \o IdsWith(Tail(log), S)

LogIds(log) == [i \in 1..Len(log) |-> log[i][1]]

\* C1: when the connect / authentication step fails inside collect_emails
\* of any collector, the call does not raise: it returns a CollectionResult
\* with an empty messages list and a non-empty errors list.
ConnectFailed ==
    /\ op = "collect" /\ pc = "done"
    /\ IF kind = "exchange" THEN CollectError \in Range(errors)
                            ELSE conn = "none"

C1_ConnectFailureGivesResult ==
    ConnectFailed => (ret = "result" /\ messages = <<>> /\ errors # <<>>)

\* C2: in collect_emails of every collector, a message whose fetch or
\* parse raises adds exactly one error string for that message, every later
\* message is still processed, and the messages that succeed are in
\* `messages` in their original order.
LoopList == IF kind = "exchange" THEN emailList ELSE idList

LoopFinished ==
    /\ op = "collect"
    /\ IF kind = "exchange"
         THEN pc = "done" /\ CollectError \notin Range(errors)
         ELSE pc \in {"return", "done"} /\ totalCount # Unbound

PerMessageErrors ==
    SelectSeq(errors, LAMBDA e : e[1] \in {"fetch", "process"})

C2_PerMessageFailureIsolated ==
    op = "collect" =>
      /\ messages = IdsWith(attempts, {"ok"})
      /\ [i \in 1..Len(PerMessageErrors) |-> PerMessageErrors[i][2]]
            = IdsWith(attempts, {"raise"})
      /\ LogIds(attempts) = Prefix(LoopList, Len(attempts))
      /\ LoopFinished => LogIds(attempts) = LoopList

C2_Witness ==
    /\ LoopFinished /\ pc = "done" /\ ret = "result"
    /\ \E i, j \in 1..Len(attempts) :
          i < j /\ attempts[i][2] = "raise" /\ attempts[j][2] = "ok"

\* C3: test_connection of every collector never raises; it returns True
\* exactly when the authenticated round trip completed, False otherwise,
\* and issues no message search or fetch.
MessageCmds == {"select", "search", "fetch", "stat", "retr",
                "http_messages", "http_search"}

C3_TestConnectionIsBoolean ==
    (op = "test" /\ pc = "done") =>
      /\ ret \in {"true", "false"}
      /\ (ret = "true") <=> rtDone
      /\ cmds \cap MessageCmds = {}

C3_Witness ==
    op = "test" /\ pc = "done" /\ ret = "false" /\ "login" \in cmds

\* C4: one call of _make_request sends at most two HTTP requests: a 429 is
\* retried once after the Retry-After wait, a second 429 is not retried.
C4_AtMostTwoRequests == Len(rqSent) <= 2

\* C5: with a limit L >= 1, get_all_messages yields exactly
\* min(L, mailbox size) messages and requests no page once L messages have
\* been yielded.
C5_LimitBoundsTheWalk ==
    (op = "collect" /\ kind = "exchange" /\ ~useSearch /\ maxRes >= 1) =>
      /\ \A i \in 1..Len(requests) : requests[i][3] < maxRes
      /\ (pc \in {"process", "done"} /\ CollectError \notin Range(errors))
            => Len(emailList) = Min(maxRes, mboxSize)

\* C6: with no cached account, a failing device-code flow makes
\* get_access_token return None after exactly one device-code attempt,
\* writes no cache file and leaves the handler without a token, so that a
\* later call starts a new device-code flow.
C6_FailedFlowReturnsToNoToken ==
    (tokKind = "exchange" /\ lastOp = "get" /\ ~pre.mem.account) =>
      /\ NumFlows(lastEvents) = 1
      /\ "device_fail" \in Range(lastEvents) =>
            /\ lastRet = NoTok
            /\ cacheFile = pre.cacheFile
            /\ mem = pre.mem

C6_Witness ==
    /\ tokKind = "exchange" /\ lastOp = "get" /\ ~pre.mem.account
    /\ "device_fail" \in Range(lastEvents)
    /\ deviceFlows >= 2

\* C7: _acquire_token returns the token of the simple token file only when
\* the time is strictly before its expires_at; otherwise the stored token
\* is not returned and a silent refresh for the cached account, then if
\* needed a device-code flow, is attempted instead.
StoredTokenValid ==
    pre.tokenFile.state = "ok" /\ pre.now < pre.tokenFile.expires_at

C7_StoredTokenOnlyWhileValid ==
    (tokKind = "oauth2_imap" /\ lastOp = "acquire") =>
      /\ lastEvents = <<"load_token_hit">> => StoredTokenValid
      /\ ~StoredTokenValid =>
            /\ lastEvents # <<>>
            /\ IF pre.cacheFile # Absent /\ Deserialize(pre.cacheFile).account
                 THEN lastEvents[1] \in {"silent_ok", "silent_none"}
                 ELSE lastEvents[1] \in {"device_ok", "device_fail"}

\* the safety half of C7 alone: an expired or unreadable stored token is
\* never what _acquire_token returns
C7_ExpiredTokenNeverReturned ==
    (tokKind = "oauth2_imap" /\ lastOp = "acquire" /\ ~StoredTokenValid) =>
      /\ lastEvents # <<"load_token_hit">>
      /\ lastRet \notin {NoTok, Raised} => lastRet.exp > pre.now

\* C8: after revoke_token returns, the cache file does not exist and the
\* in-memory cache holds no account, also when removing the file fails.
C8_RevokeClearsEverything ==
    (tokKind = "exchange" /\ lastOp = "revoke") =>
      (cacheFile = Absent /\ ~mem.account)

\* C9: test_connection called twice in a row with valid credentials
\* returns True both times; the second call starts no device-code flow and
\* leaves the cache files and the in-memory token state as they were.
C9_TestConnectionIdempotent ==
    [][ (lastOp' = "test" /\ lastEnvOk') =>
          /\ lastRet' = TrueRet
          /\ (lastOp = "test" /\ lastRet = TrueRet /\ now' = now) =>
                /\ deviceFlows' = deviceFlows
                /\ cacheFile' = cacheFile
                /\ tokenFile' = tokenFile
                /\ mem' = mem ]_vars

\* C10: in _save_emails a message whose save raises adds an error naming
\* it and the loop goes on; afterwards the paths of the messages whose save
\* succeeded are in saved_files in message order and result.messages is
\* unchanged.
C10_SaveFailureIsolated ==
    svPc = "done" =>
      /\ svMessages = svGiven
      /\ LogIds(svOutcomes) = svGiven
      /\ svSavedFiles = [i \in 1..Len(IdsWith(svOutcomes, {"ok", "attach_raises"}))
                           |-> FilePath(IdsWith(svOutcomes, {"ok", "attach_raises"})[i])]
      /\ svErrors = svGivenErrors \o
                    [i \in 1..Len(IdsWith(svOutcomes, {"save_raises", "attach_raises"}))
                       |-> SaveError(IdsWith(svOutcomes, {"save_raises", "attach_raises"})[i])]

C10_Witness ==
    /\ svPc = "done"
    /\ \E i, j \in 1..Len(svOutcomes) :
          i < j /\ svOutcomes[i][2] = "save_raises" /\ svOutcomes[j][2] = "ok"

\* C11: with an output format other than json, txt or eml every
\* save_to_file call raises and writes no file; _save_emails confines the
\* failure to each call: result.messages is returned as collected,
\* saved_files stays empty and one error per message is recorded.
C11_UnsupportedFormatConfined ==
    (svPc = "done" /\ svFormat \notin OutputFormats) =>
      /\ svMessages = svGiven
      /\ svSavedFiles = <<>>
      /\ svDisk = {}
      /\ svErrors = svGivenErrors \o
                    [i \in 1..Len(svGiven) |-> SaveError(svGiven[i])]

C11_Witness ==
    /\ svPc = "done" /\ svFormat \notin OutputFormats
    /\ Len(svGiven) >= 2 /\ Len(svErrors) >= 2

\* C12: a POP3 collect_emails that connected returns total_count equal to
\* the message count STAT reported and filtered_count equal to the number
\* of messages that survived the client-side filter, i.e. the number of
\* messages returned.
C12_Pop3Counts ==
    (op = "collect" /\ kind = "pop3" /\ pc = "done" /\ ret = "result") =>
      /\ retTotal = mboxSize
      /\ retFiltered = Len(messages)

\* the half of C12 about total_count alone
C12_Pop3TotalIsStat ==
    (op = "collect" /\ kind = "pop3" /\ pc = "done" /\ ret = "result") =>
      retTotal = mboxSize

\* C13: POP3 collect_emails with max_results = M >= 1 on N messages
\* retrieves exactly the messages 1..min(N, M), in ascending order, and
\* returns exactly the retrieved ones that match the filter, in retrieval
\* order; a matching message above M is never returned.
Pop3LoopFinished ==
    /\ op = "collect" /\ kind = "pop3" /\ maxRes >= 1
    /\ pc \in {"return", "done"} /\ totalCount # Unbound

C13_Pop3TruncatesBeforeFilter ==
    (op = "collect" /\ kind = "pop3" /\ maxRes >= 1) =>
      /\ LogIds(attempts) = Prefix(Ids(Min(mboxSize, maxRes)), Len(attempts))
      /\ \A i \in 1..Len(messages) : messages[i] <= maxRes
      /\ Pop3LoopFinished =>
            /\ LogIds(attempts) = Ids(Min(mboxSize, maxRes))
            /\ messages = SelectSeq(IdsWith(attempts, {"ok", "nomatch"}),
                                    LAMBDA id : id \in Range(searchHits))

C13_Witness ==
    /\ Pop3LoopFinished /\ ret = "result"
    /\ maxRes < mboxSize
    /\ \E id \in Range(searchHits) : id > maxRes
    /\ \E id \in 1..maxRes : id \notin Range(searchHits)
    /\ messages # <<>>

\* C14: _build_search_criteria returns the keys of exactly the present
\* fields among sender, recipient, subject_contains, body_contains,
\* date_from, date_to and has_attachments, one key per present field (FROM,
\* TO, SUBJECT, BODY, SINCE, BEFORE, HASATTACH) in that order; it returns
\* ALL when the filter is absent or has none of these fields.
ExpectedCriteria(f) ==
       (IF f.sender.set THEN <<Key("FROM", f.sender.val)>> ELSE <<>>)
    \o (IF f.recipient.set THEN <<Key("TO", f.recipient.val)>> ELSE <<>>)
    \o (IF f.subject_contains.set
          THEN <<Key("SUBJECT", f.subject_contains.val)>> ELSE <<>>)
    \o (IF f.body_contains.set
          THEN <<Key("BODY", f.body_contains.val)>> ELSE <<>>)
    \o (IF f.date_from.set THEN <<Key("SINCE", <<f.date_from.t>>)>> ELSE <<>>)
    \o (IF f.date_to.set THEN <<Key("BEFORE", <<f.date_to.t>>)>> ELSE <<>>)
    \o (IF f.has_attachments # "None"
          THEN <<Key("HASATTACH", <<>>)>> ELSE <<>>)

C14_CriteriaOfPresentFields ==
    fPc # "idle" =>
      fCriteria = (IF fFilter.none \/ ExpectedCriteria(fFilter) = <<>>
                     THEN All ELSE ExpectedCriteria(fFilter))

\* C14 for the filters whose present fields are all non-empty strings,
\* dates or has_attachments = True
NoFalsyField(f) ==
    /\ \A x \in {f.sender, f.recipient, f.subject_contains, f.body_contains} :
          x.set => x.val # <<>>
    /\ f.has_attachments # "False"

C14_CriteriaOfTruthyFields ==
    (fPc # "idle" /\ NoFalsyField(fFilter)) =>
      fCriteria = (IF fFilter.none \/ ExpectedCriteria(fFilter) = <<>>
                     THEN All ELSE ExpectedCriteria(fFilter))

\* C15: _matches_filter returns true exactly when every present filter
\* field holds for the message: sender, subject and body by
\* case-insensitive substring (body over text and html), recipient by
\* membership in the recipients, the date within [date_from, date_to],
\* attachment presence equal to has_attachments; true with no filter.
FieldsHold(message, f) ==
    /\ f.sender.set => IsSubstring(Lower(f.sender.val), Lower(message.sender))
    /\ f.recipient.set =>
          \E i \in 1..Len(message.recipients) :
             Lower(message.recipients[i]) = Lower(f.recipient.val)
    /\ f.subject_contains.set =>
          IsSubstring(Lower(f.subject_contains.val), Lower(message.subject))
    /\ f.body_contains.set =>
          \/ IsSubstring(Lower(f.body_contains.val),
                         Lower(OrEmpty(message.body_text)))
          \/ IsSubstring(Lower(f.body_contains.val),
                         Lower(OrEmpty(message.body_html)))
    /\ f.date_from.set => message.date.t >= f.date_from.t
    /\ f.date_to.set => message.date.t <= f.date_to.t
    /\ f.has_attachments # "None" =>
          ((message.attachments # 0) <=> (f.has_attachments = "True"))

C15_MatchesIsConjunction ==
    fPc = "matched" =>
      fMatch = (IF fFilter.none \/ FieldsHold(fMsg, fFilter)
                  THEN "true" ELSE "false")

\* C15 for the filters whose present strings are non-empty and whose dates
\* can be compared with the message's date
C15_MatchesForComparableDates ==
    (/\ fPc = "matched"
     /\ \A x \in {fFilter.sender, fFilter.recipient, fFilter.subject_contains,
                   fFilter.body_contains} : x.set => x.val # <<>>
     /\ \A d \in {fFilter.date_from, fFilter.date_to} :
           d.set => Comparable(fMsg.date, d)) =>
      fMatch = (IF fFilter.none \/ FieldsHold(fMsg, fFilter)
                  THEN "true" ELSE "false")

\* C16: for a filter with no constraint field set, collect_emails of every
\* collector returns every message of the mailbox when max_results is
\* unset and exactly the first min(max_results, mailbox size) messages when
\* it is set, provided no per-message fetch fails.
CollectedCleanly ==
    /\ op = "collect" /\ pc = "done" /\ ret = "result" /\ errors = <<>>
    /\ \A i \in 1..Len(attempts) : attempts[i][2] = "ok"

FirstMessages ==
    Ids(IF maxRes = 0 THEN mboxSize ELSE Min(maxRes, mboxSize))

C16_UnconstrainedReturnsAll ==
    (CollectedCleanly /\ ~constrained) => messages = FirstMessages

\* C16 for the servers whose next links carry a skiptoken
C16_UnconstrainedWithSkiptoken ==
    (CollectedCleanly /\ ~constrained /\ linkForm = "skiptoken") =>
      messages = FirstMessages

\* ------------------------------------------------------------------ C17
\* the stream has ended and nothing failed on the way
StreamedCleanly ==
    /\ op = "stream" /\ pc = "done"
    /\ \A i \in 1..Len(attempts) : attempts[i][2] = "ok"
    /\ kind # "exchange" => (ret = "result" /\ errors = <<>>
                             /\ Len(yielded) = Len(messages))

\* what collect_emails returns for the filter and options of the stream,
\* on the same mailbox, when nothing fails
CollectReturns ==
    CASE kind # "exchange" -> messages
      [] kind = "exchange" /\ useSearch -> SearchAnswer
      [] kind = "exchange" /\ ~useSearch -> emailList

\* C17: for every collector, filter and mailbox state, the messages that
\* astream_emails yields are, in the same order, the messages list that
\* collect_emails returns for the same filter and options.
C17_StreamEqualsCollect ==
    StreamedCleanly => LogIds(yielded) = CollectReturns

\* the part of C17 that the code keeps: filters without subject_contains
C17_StreamEqualsCollectNoSubject ==
    (StreamedCleanly /\ ~useSearch) => LogIds(yielded) = CollectReturns

\* ------------------------------------------------------------------ C18
\* Exchange: the latest request issued when the i-th message is handed over
\* is the one whose page holds that message
YieldedFromLatestPage(i) ==
    LET r == yielded[i][2] IN
      /\ r \in 1..Len(requests)
      /\ yielded[i][1] \in
            Range(ServerPage(requests[r][1], Min(requests[r][2], GraphTopCap)))

\* IMAP, POP3: the latest fetch issued when the i-th message is handed over
\* is the fetch of that message
YieldedAfterOwnFetch(i) ==
    LET n == yielded[i][2] IN
      /\ n \in 1..Len(attempts)
      /\ attempts[n][1] = yielded[i][1]

\* C18: astream_emails hands each message to the consumer before any later
\* network fetch is issued: at every yield the latest fetch issued is the
\* page (Exchange) or the message (IMAP, POP3) that holds the yielded message.
C18_YieldsBeforeLaterFetch ==
    op = "stream" =>
      \A i \in 1..Len(yielded) :
         IF kind = "exchange" THEN YieldedFromLatestPage(i)
                              ELSE YieldedAfterOwnFetch(i)

\* the part of C18 that the code keeps: the Exchange stream
C18_ExchangeYieldsBeforeLaterFetch ==
    (op = "stream" /\ kind = "exchange") =>
      \A i \in 1..Len(yielded) : YieldedFromLatestPage(i)

\* ------------------------------------------------------------------ C19
\* C19: constructing a collector without its credentials fails at
\* construction, so no operation (collect_emails, astream_emails,
\* test_connection) ever runs on an instance that was built without them.
C19_NoCallWithoutCredentials ==
    op # "idle" => credsGiven

\* the part of C19 that the code keeps: MicrosoftExchangeCollector raises
\* ValueError when tenant_id or client_id is missing
C19_ExchangeRejectsMissingCredentials ==
    kind = "exchange" => credsGiven

\* ------------------------------------------------------------------ C20
DistinctMessageIds ==
    \A i, j \in 1..Len(messages) :
       i # j => MessageIdOf(messages[i]) # MessageIdOf(messages[j])

\* C20: in every CollectionResult returned by collect_emails no two
\* messages have the same message_id, also when messages of the mailbox
\* carry no Message-ID header.
C20_MessageIdsUnique ==
    (op = "collect" /\ ret = "result") => DistinctMessageIds

\* the part of C20 that the code keeps: at most one message without the
\* header, and an Exchange server whose next links carry a skiptoken
C20_MessageIdsUniqueWithHeaders ==
    (op = "collect" /\ ret = "result" /\ Cardinality(noHeader) <= 1
        /\ linkForm = "skiptoken") => DistinctMessageIds

\* ------------------------------------------------------------------ C21
ImapCollectReturned ==
    op = "collect" /\ kind \in ImapKinds /\ pc = "done"

\* C21: in IMAP and OAuth2-IMAP collect_emails every connection that was
\* opened is logged out before the call returns, on every exit path.
C21_ConnectionReleasedOnReturn ==
    ImapCollectReturned => conn # "open"

\* the part of C21 that the code keeps: the exit path on which close and
\* logout are reached and succeed
C21_ReleasedOnNormalCompletion ==
    (ImapCollectReturned /\ ConnError \notin Range(errors)
        /\ SearchError \notin Range(errors)) => conn = "closed"

\* ------------------------------------------------------------------ C22
\* an account was cached when the call started: in the handler's MSAL cache
\* (OAuthHandler), in the persistent MSAL cache file (OAuth2IMAPCollector,
\* which builds its application from the file on every call)
HadCachedAccount ==
    IF tokKind = "exchange" THEN pre.mem.account
                            ELSE Deserialize(pre.cacheFile).account

SilentFirst ==
    /\ NumFlows(lastEvents) > 0 =>
          (~HadCachedAccount \/ "silent_none" \in Range(lastEvents))
    /\ "silent_ok" \in Range(lastEvents) =>
          (NumFlows(lastEvents) = 0 /\ lastRet \notin {NoTok, Raised})

\* C22: in OAuthHandler.get_access_token and
\* OAuth2IMAPCollector._acquire_token a device-code flow is started only
\* after a silent acquisition for the cached account returned no token, or
\* when no account is cached; a token from the silent acquisition is
\* returned without starting a device-code flow.
C22_DeviceFlowOnlyAfterSilent ==
    lastOp \in {"get", "acquire"} => SilentFirst

\* the part of C22 that the code keeps: OAuthHandler.get_access_token
C22_HandlerDeviceFlowOnlyAfterSilent ==
    (tokKind = "exchange" /\ lastOp = "get") => SilentFirst

\* ------------------------------------------------------------------ C23
\* _acquire_token obtained a token from the identity provider or the MSAL
\* cache, and nothing in the environment failed
AcquiredToken ==
    /\ tokKind = "oauth2_imap" /\ lastOp = "acquire" /\ lastEnvOk
    /\ \E i \in 1..Len(lastEvents) : lastEvents[i] \in {"silent_ok", "device_ok"}

BothFilesWritten ==
    /\ "save_cache" \in Range(lastEvents)
    /\ "save_token" \in Range(lastEvents)
    /\ lastRet \notin {NoTok, Raised}
    /\ cacheFile # Absent /\ Deserialize(cacheFile).at = lastRet
    /\ tokenFile.state = "ok" /\ tokenFile.access_token = lastRet

\* C23: after every successful token acquisition of _acquire_token (silent
\* refresh or device-code flow) the MSAL cache file and the simple token
\* file have both been written and the token is returned, whether or not a
\* cache file existed before.
C23_BothCachesWritten ==
    AcquiredToken => BothFilesWritten

\* the part of C23 that the code keeps: no cache file existed before
C23_BothCachesWrittenFirstTime ==
    (AcquiredToken /\ pre.cacheFile = Absent) => BothFilesWritten

\* ------------------------------------------------------------------ C24
\* C24: every HTTP request of ExchangeClient, a rate-limit retry included,
\* carries the token of a get_access_token call made before it in the same
\* _make_request invocation; when that call gives no token the invocation
\* sends nothing and the call fails.
C24_FreshTokenPerRequest ==
    /\ \A i \in 1..Len(rqSent) :
          /\ rqSent[i][2] # 0
          /\ <<rqSent[i][2], rqSent[i][3]>> \in Range(rqTokenCalls)
    /\ \A j \in 1..Len(rqTokenCalls) :
          rqTokenCalls[j][1] = 0 =>
             /\ \A i \in 1..Len(rqSent) : rqSent[i][3] # rqTokenCalls[j][2]
             /\ rqPc = "done" /\ rqRet = "raised"

\* a retry that carries another token than the request that was rate-limited,
\* and a call that failed without a token after one request was sent
C24_Witness ==
    /\ Len(rqSent) = 2 /\ rqSent[1][2] # rqSent[2][2] /\ rqSent[2][3] = 2
    /\ Len(rqTokenCalls) = 3 /\ rqTokenCalls[3][1] = 0 /\ rqRet = "raised"

\* ------------------------------------------------------------------ C25
\* the ids IMAP collect_emails is to fetch: the first min(max_results, k)
\* of the k ids of the search answer, all k when max_results is unset
ImapSelected ==
    SubSeq(searchHits, 1,
           IF maxRes = 0 THEN Len(searchHits) ELSE Min(maxRes, Len(searchHits)))

ImapLoopFinished ==
    /\ op = "collect" /\ kind \in ImapKinds
    /\ pc \in {"return", "done"} /\ totalCount # Unbound

SearchTexts(f) ==
    {x.val : x \in {y \in {f.subject_contains, f.body_contains} : Truthy(y)}}

\* the $filter expression of dateFrom, dateTo, sender and hasAttachments
FilterOfFields(f) ==
       (IF f.date_from.set
          THEN <<Key("receivedDateTime ge", <<f.date_from.t>>)>> ELSE <<>>)
    \o (IF f.date_to.set
          THEN <<Key("receivedDateTime le", <<f.date_to.t>>)>> ELSE <<>>)
    \o (IF Truthy(f.sender)
          THEN <<Key("from/emailAddress/address eq", f.sender.val)>> ELSE <<>>)
    \o (IF f.has_attachments = "True"
          THEN <<Key("hasAttachments eq", <<1>>)>> ELSE <<>>)
    \o (IF f.has_attachments = "False"
          THEN <<Key("hasAttachments eq", <<0>>)>> ELSE <<>>)

SearchOrFilter(f, q) ==
    /\ ~(q.search.set /\ q.filter # <<>>)
    /\ IF SearchTexts(f) # {}
         THEN q.search.set /\ q.search.val \in SearchTexts(f) /\ q.filter = <<>>
         ELSE ~q.search.set /\ q.filter = FilterOfFields(f)

\* C26: Exchange collect_emails never sends $search together with $filter:
\* with subject_contains or body_contains set it sends a $search of that
\* text and no $filter, otherwise the $filter built from date_from, date_to,
\* sender and has_attachments (none when none of them is set).
C26_SearchOrFilter ==
    fPc = "queried" => SearchOrFilter(fFilter, fQuery)

\* the parts of C26 that the code keeps: never both parameters; and the
\* whole claim for filters without a body_contains text
C26_NeverSearchWithFilter ==
    fPc = "queried" => ~(fQuery.search.set /\ fQuery.filter # <<>>)

C26_SearchOrFilterWithoutBody ==
    (fPc = "queried" /\ ~Truthy(fFilter.body_contains))
        => SearchOrFilter(fFilter, fQuery)

\* ------------------------------------------------------------------ C27
\* the downloads and the returned attachments of a processed message
OneDownloadPerAttachment ==
    /\ ~aInclude => aLog = <<>>
    /\ Len(aLog) <= aAtts /\ LogIds(aLog) = SubSeq(Ids(aAtts), 1, Len(aLog))
    /\ (aPc = "done" /\ aInclude /\ aRet = "message") =>
          /\ LogIds(aLog) = Ids(aAtts)
          /\ aKept = IdsWith(aLog, {"ok", "write_raise"})
    /\ (aPc = "done" /\ aLog # <<>>) => aRet = "message"

\* C27: Exchange collect_emails and astream_emails download no attachment
\* unless include_attachments is given; with it they issue exactly one
\* download per attachment of each message that has attachments, and a
\* failed download drops only that attachment: the message and its other
\* attachments are still returned.
C27_OneDownloadPerAttachment ==
    aPc # "idle" => OneDownloadPerAttachment

\* the part of C27 that the code keeps: messages delivered by
\* get_all_messages (astream_emails, and collect_emails without
\* subject_contains)
C27_OneDownloadPerAttachmentOnWalk ==
    (aPc # "idle" /\ ExPath(aOp, aSubject) = "walk") => OneDownloadPerAttachment

WalkWithoutLimit ==
    /\ kind = "exchange" /\ op \in CollectOps /\ maxRes = 0
    /\ ~(op = "collect" /\ useSearch)

EachPageOnce ==
    /\ \A i, j \in 1..Len(requests) : i # j => requests[i][1] # requests[j][1]
    /\ \A i \in 2..Len(requests) : requests[i][1] # 0
    /\ \A i, j \in 1..Len(emailList) : i # j => emailList[i] # emailList[j]
    /\ Len(requests) <= mboxSize + 1

\* C29: with limit unset get_all_messages terminates on a finite mailbox
\* and yields each message once: every page request after the first carries
\* the continuation token of the previous answer's next link and no page is
\* requested twice, whatever the form of the next link.
C29_EachPageRequestedOnce ==
    WalkWithoutLimit => EachPageOnce

\* the part of C29 that the code keeps: next links that carry "skiptoken="
C29_EachPageOnceWithSkiptoken ==
    (WalkWithoutLimit /\ linkForm = "skiptoken") => EachPageOnce

\* ------------------------------------------------------------------ C30
FetchErrors == SelectSeq(errors, LAMBDA e : e[1] = "fetch")

\* C30: when IMAP or OAuth2-IMAP collect_emails has completed the fetch
\* loop every selected id gave one message or one error string:
\* len(messages) plus the number of fetch errors is filtered_count, and
\* filtered_count <= total_count.
C30_EveryIdAccountedFor ==
    ImapLoopFinished =>
      /\ Len(messages) + Len(FetchErrors) = filteredCount
      /\ filteredCount <= totalCount

\* the parts of C30 that the code keeps: the counts are ordered, and the
\* sum is right when every fetch answered 'OK' with data or raised
C30_AccountedForWithoutRefusedFetch ==
    ImapLoopFinished =>
      /\ filteredCount <= totalCount
      /\ (\A i \in 1..Len(attempts) : attempts[i][2] # "notok") =>
            Len(messages) + Len(FetchErrors) = filteredCount

============================================================================
